---- MODULE Spec2Model ----
(***************************************************************************)
(* The G-code post-processor of the filament module                        *)
(* (src/src/modules/filament/filament.js): the state the user edits (the   *)
(* loaded file, the layer pauses, the injections, the sliders and          *)
(* checkboxes) and the modification engine applyAndDownload runs over it.  *)
(*                                                                         *)
(* Text is modelled character by character: a string is a sequence of      *)
(* one-character strings, so that split, join, trim and the regular        *)
(* expressions of the source are computed and not assumed.  Numbers read   *)
(* by parseFloat are exact decimal fractions [num, den]; products and      *)
(* roundings are exact (binary floating point is not modelled).            *)
(***************************************************************************)
EXTENDS Integers, Sequences, FiniteSets, TLC

VARIABLES
  gcodeRawText,   \* filament.js:919  the loaded file's text, or NULL
  layerPauses,    \* filament.js:922  sequence of [layer, command, customGcode]
  injections,     \* filament.js:923  sequence of [mode, number, gcode]
  gcodeAnalysis,  \* filament.js:921  the metrics of the loaded file, or NULL
  speedPct,       \* value of #gc-speed-slider
  nozzleOffset,   \* value of #gc-temp-nozzle-offset
  bedOffset,      \* value of #gc-temp-bed-offset
  fanPct,         \* value of #gc-fan-slider
  printer,        \* value of #gc-pp-printer
  ejectFlags,     \* checked state of #gc-eject-cool / -shake / -push
  pc,             \* "idle", or "saving" while applyAndDownload awaits the dialog
  rewritten,      \* applyAndDownload's `lines` after steps 1-3
  paused,         \* ... after step 4 (applyLayerPauses)
  injected,       \* ... after step 5 (applyInjections)
  modifiedText,   \* applyAndDownload's modifiedText
  scan,           \* the locals of a running findLayerStartLines
  parseRun,       \* the locals of a running gcodeParser.parse
  detectRun,      \* the record handed to a call of _detectWarnings
  currentModule,  \* part_000:19
  modulesLoaded,  \* part_000:20, the keys that are true
  calls,          \* the calls of switchModule, each with its position
  appended        \* per module, the elements loadModule has appended

\* the state of the application shell (part_000:19-20 and the document)
shellVars == <<currentModule, modulesLoaded, calls, appended>>

vars == <<gcodeRawText, gcodeAnalysis, layerPauses, injections, speedPct,
          nozzleOffset, bedOffset, fanPct, printer, ejectFlags, pc,
          rewritten, paused, injected, modifiedText, scan, parseRun, detectRun, shellVars>>

\* null, undefined and a failed match: an optional value is a sequence of at
\* most one element
NULL == <<>>
Some(v) == <<v>>

(***************************************************************************)
(* Characters and strings                                                  *)
(***************************************************************************)
NL == "\n"

Digits == {"0", "1", "2", "3", "4", "5", "6", "7", "8", "9"}

DigitVal(c) ==
  CASE c = "0" -> 0 [] c = "1" -> 1 [] c = "2" -> 2 [] c = "3" -> 3
    [] c = "4" -> 4 [] c = "5" -> 5 [] c = "6" -> 6 [] c = "7" -> 7
    [] c = "8" -> 8 [] c = "9" -> 9

DigitChar(d) ==
  CASE d = 0 -> "0" [] d = 1 -> "1" [] d = 2 -> "2" [] d = 3 -> "3"
    [] d = 4 -> "4" [] d = 5 -> "5" [] d = 6 -> "6" [] d = 7 -> "7"
    [] d = 8 -> "8" [] d = 9 -> "9"

\* \s of a JavaScript regular expression, and the characters trim() removes
IsSpace(c) == c \in {" ", "\t", "\r", "\n"}

\* [\d.] of the source's parameter patterns
IsNumChar(c) == c \in Digits \cup {"."}

Min(S) == CHOOSE x \in S : \A y \in S : x <= y
Max(S) == CHOOSE x \in S : \A y \in S : x >= y

\* s.substring(i-1): the characters of s from position i (1-based) on
From(s, i) == SubSeq(s, i, Len(s))

\* first position >= i of s whose character is c, 0 when there is none
IndexFrom(s, c, i) ==
  LET hits == {k \in i..Len(s) : s[k] = c}
  IN  IF hits = {} THEN 0 ELSE Min(hits)

\* s.startsWith(p)
StartsWith(s, p) == Len(s) >= Len(p) /\ SubSeq(s, 1, Len(p)) = p

\* String.prototype.split with a one-character separator
RECURSIVE Split(_, _)
Split(s, sep) ==
  LET k == IndexFrom(s, sep, 1)
  IN  IF k = 0 THEN <<s>>
      ELSE <<SubSeq(s, 1, k - 1)>> \o Split(From(s, k + 1), sep)

\* Array.prototype.join with a one-character separator
RECURSIVE Join(_, _)
Join(ls, sep) ==
  IF Len(ls) = 0 THEN <<>>
  ELSE IF Len(ls) = 1 THEN ls[1]
  ELSE ls[1] \o <<sep>> \o Join(Tail(ls), sep)

\* String.prototype.trim
Trim(s) ==
  LET keep == {k \in 1..Len(s) : ~IsSpace(s[k])}
  IN  IF keep = {} THEN <<>> ELSE SubSeq(s, Min(keep), Max(keep))

\* s.split(/\s+/): the pieces between maximal runs of white space
RECURSIVE SplitWs(_)
SplitWs(s) ==
  LET sp == {k \in 1..Len(s) : IsSpace(s[k])}
  IN  IF sp = {} THEN <<s>>
      ELSE LET a == Min(sp)
               after == {k \in a..Len(s) : ~IsSpace(s[k])}
           IN  IF after = {} THEN <<SubSeq(s, 1, a - 1), <<>> >>
               ELSE <<SubSeq(s, 1, a - 1)>> \o SplitWs(From(s, Min(after)))

\* line.split(';')[0].trim(): the command part of a line
Stripped(line) == Trim(Split(line, ";")[1])

\* length of the longest run of characters satisfying [\d.] that starts at i
NumRunLen(s, i) ==
  LET stop == {k \in i..Len(s) : ~IsNumChar(s[k])}
  IN  (IF stop = {} THEN Len(s) + 1 ELSE Min(stop)) - i

\* length of the longest run of digits that starts at i
DigitRunLen(s, i) ==
  LET stop == {k \in i..Len(s) : s[k] \notin Digits}
  IN  (IF stop = {} THEN Len(s) + 1 ELSE Min(stop)) - i

RECURSIVE DigitsValue(_)
DigitsValue(ds) ==
  IF Len(ds) = 0 THEN 0
  ELSE 10 * DigitsValue(SubSeq(ds, 1, Len(ds) - 1)) + DigitVal(ds[Len(ds)])

RECURSIVE Pow10(_)
Pow10(n) == IF n = 0 THEN 1 ELSE 10 * Pow10(n - 1)

NaN == [nan |-> TRUE, num |-> 0, den |-> 1]
Num(n, d) == [nan |-> FALSE, num |-> n, den |-> d]

\* parseFloat of a string of digits and dots: the longest prefix that is a
\* decimal numeral (digits, then at most one dot and digits); NaN when that
\* prefix holds no digit
ParseFloat(s) ==
  LET d1 == DigitRunLen(s, 1)
      dot == d1 < Len(s) /\ s[d1 + 1] = "."
      d2 == IF dot THEN DigitRunLen(s, d1 + 2) ELSE 0
  IN  IF d1 + d2 = 0 THEN NaN
      ELSE Num(DigitsValue(SubSeq(s, 1, d1) \o SubSeq(s, d1 + 2, d1 + 1 + d2)),
               Pow10(d2))

\* parseInt of a string of digits
ParseInt(s) == DigitsValue(SubSeq(s, 1, DigitRunLen(s, 1)))

\* Math.round of the fraction n/d (d > 0): the nearest integer, halves up
Round(n, d) == (2 * n + d) \div (2 * d)

\* the decimal numeral of an integer, as template literals print it
RECURSIVE NatToStr(_)
NatToStr(n) ==
  IF n < 10 THEN <<DigitChar(n)>> ELSE NatToStr(n \div 10) \o <<DigitChar(n % 10)>>

IntToStr(n) == IF n < 0 THEN <<"-">> \o NatToStr(-n) ELSE NatToStr(n)

\* a < b for parseFloat results; every comparison with NaN is false
NumLess(a, b) == ~a.nan /\ ~b.nan /\ a.num * b.den < b.num * a.den

(***************************************************************************)
(* findLayerStartLines (filament.js:1737-1780)                             *)
(***************************************************************************)
LowerCase(c) ==
  CASE c = "L" -> "l" [] c = "A" -> "a" [] c = "Y" -> "y" [] c = "E" -> "e"
    [] c = "R" -> "r" [] OTHER -> c

LowerWord(s) == [k \in 1..Len(s) |-> LowerCase(s[k])]

\* line.match(/^;\s*(?:LAYER|layer)[:\s_]+(\d+)/i): the captured digits, or
\* NULL when the line does not match
LayerCommentMatch(line) ==
  IF Len(line) = 0 \/ line[1] # ";" THEN NULL
  ELSE LET rest == {k \in 2..Len(line) : ~IsSpace(line[k])}
       IN  IF rest = {} THEN NULL
           ELSE LET w == Min(rest)
                    word == LowerWord(SubSeq(line, w, Min({w + 4, Len(line)})))
                    seps == {k \in (w + 5)..Len(line) :
                               ~(line[k] \in {":", "_"} \/ IsSpace(line[k]))}
                    d == IF seps = {} THEN Len(line) + 1 ELSE Min(seps)
                IN  IF word # <<"l", "a", "y", "e", "r">> THEN NULL
                    ELSE IF d = w + 5 THEN NULL
                    ELSE IF DigitRunLen(line, d) = 0 THEN NULL
                    ELSE Some(SubSeq(line, d, d + DigitRunLen(line, d) - 1))

\* cmd.match(/Z([\d.]+)/): the captured run of the first Z that is followed by
\* a digit or a dot, or NULL
ZMatch(cmd) ==
  LET hits == {k \in 1..(Len(cmd) - 1) : cmd[k] = "Z" /\ IsNumChar(cmd[k + 1])}
  IN  IF hits = {} THEN NULL
      ELSE Some(SubSeq(cmd, Min(hits) + 1, Min(hits) + NumRunLen(cmd, Min(hits) + 1)))

\* the locals of findLayerStartLines before its loop
ScanInit == [map |-> <<>>, currentZ |-> Num(-1, 1), layerNum |-> 0]

\* a scan that takes every entry for undefined
AlwaysUndefined(map, num) == TRUE

\* map[num] === undefined
Undefined(map, num) == num \notin DOMAIN map

\* one iteration of the loop: line i (0-based) of the stream is `raw`
ScanLine(st, raw, i) ==
  LET line == Trim(raw)
      layerComment == LayerCommentMatch(line)
      cmd == Stripped(line)
      code == SplitWs(cmd)[1]
      zMatch == ZMatch(cmd)
      z == ParseFloat(zMatch[1])
  IN  IF layerComment # NULL
      THEN LET num == ParseInt(layerComment[1])
           IN  IF Undefined(st.map, num)
               THEN [st EXCEPT !.map = (num :> i) @@ st.map]
               ELSE st
      ELSE IF Len(line) = 0 \/ line[1] = ";" THEN st
      ELSE IF Len(cmd) = 0 THEN st
      ELSE IF code \notin {<<"G", "0">>, <<"G", "1">>} THEN st
      ELSE IF zMatch = NULL THEN st
      ELSE IF ~NumLess(st.currentZ, z) THEN st
      ELSE [currentZ |-> z,
            layerNum |-> st.layerNum + 1,
            map |-> IF Undefined(st.map, st.layerNum + 1)
                    THEN ((st.layerNum + 1) :> i) @@ st.map
                    ELSE st.map]

\* the locals after the first n iterations
RECURSIVE ScanPrefix(_, _)
ScanPrefix(lines, n) ==
  IF n = 0 THEN ScanInit ELSE ScanLine(ScanPrefix(lines, n - 1), lines[n], n - 1)

findLayerStartLines(lines) == ScanPrefix(lines, Len(lines)).map

(***************************************************************************)
(* The line rewrites (filament.js:1470-1542)                               *)
(***************************************************************************)
\* the first token of the command part is G0 or G1
IsMotion(stripped) == SplitWs(stripped)[1] \in {<<"G", "0">>, <<"G", "1">>}

\* ScaledF with Math.floor for Math.round
ScaledFFloor(val, pct) ==
  LET v == ParseFloat(val)
  IN  <<"F">> \o (IF v.nan THEN <<"N", "a", "N">>
                  ELSE IntToStr((v.num * pct) \div (v.den * 100)))

\* `F${Math.round(parseFloat(val) * multiplier)}` with multiplier = pct / 100
ScaledF(val, pct) ==
  LET v == ParseFloat(val)
  IN  <<"F">> \o (IF v.nan THEN <<"N", "a", "N">>
                  ELSE IntToStr(Round(v.num * pct, v.den * 100)))

\* line.replace(/F([\d.]+)/g, ...) from position `from` on
RECURSIVE ReplaceAllF(_, _, _)
ReplaceAllF(line, from, pct) ==
  LET hits == {k \in from..(Len(line) - 1) :
                 line[k] = "F" /\ IsNumChar(line[k + 1])}
  IN  IF hits = {} THEN From(line, from)
      ELSE LET k == Min(hits)
               n == NumRunLen(line, k + 1)
           IN  SubSeq(line, from, k - 1)
                 \o ScaledF(SubSeq(line, k + 1, k + n), pct)
                 \o ReplaceAllF(line, k + n + 1, pct)

\* the callback of lines.map in applySpeedOverride
SpeedLine(line, pct) ==
  LET stripped == Stripped(line)
  IN  IF Len(stripped) = 0 THEN line
      ELSE IF ~IsMotion(stripped) THEN line
      ELSE ReplaceAllF(line, 1, pct)

\* applySpeedOverride without its early return at 100 percent
applySpeedOverrideNoReturn(lines, pct) ==
  [i \in 1..Len(lines) |-> SpeedLine(lines[i], pct)]

applySpeedOverride(lines, pct) ==
  IF pct = 100 THEN lines
  ELSE [i \in 1..Len(lines) |-> SpeedLine(lines[i], pct)]

\* ShiftedS without Math.max(0, ...)
ShiftedSNoClamp(val, offset) ==
  <<"S">> \o (IF ParseFloat(val).nan THEN <<"N", "a", "N">>
              ELSE IntToStr(Round(ParseFloat(val).num + offset * ParseFloat(val).den,
                                  ParseFloat(val).den)))

\* `S${Math.max(0, Math.round(parseFloat(val) + offset))}`
ShiftedS(val, offset) ==
  LET v == ParseFloat(val)
      r == Round(v.num + offset * v.den, v.den)
  IN  <<"S">> \o (IF v.nan THEN <<"N", "a", "N">>
                  ELSE IntToStr(IF r < 0 THEN 0 ELSE r))

\* `S${Math.min(255, Math.max(0, Math.round(parseFloat(val) * scale)))}`
ScaledS(val, pct) ==
  LET v == ParseFloat(val)
      r == Round(v.num * pct, v.den * 100)
  IN  <<"S">> \o (IF v.nan THEN <<"N", "a", "N">>
                  ELSE IntToStr(IF r < 0 THEN 0 ELSE IF r > 255 THEN 255 ELSE r))

\* the first match of /S([\d.]+)/ in line: its position, 0 when there is none
FirstS(line) ==
  LET hits == {k \in 1..(Len(line) - 1) : line[k] = "S" /\ IsNumChar(line[k + 1])}
  IN  IF hits = {} THEN 0 ELSE Min(hits)

\* the callback of lines.map in applyTempTweak
TempLine(line, nozzleOff, bedOff) ==
  LET stripped == Stripped(line)
      cmd == SplitWs(stripped)[1]
      k == FirstS(line)
      n == NumRunLen(line, k + 1)
      shifted(offset) ==
        IF k = 0 THEN line
        ELSE SubSeq(line, 1, k - 1) \o ShiftedS(SubSeq(line, k + 1, k + n), offset)
               \o From(line, k + n + 1)
  IN  IF Len(stripped) = 0 THEN line
      ELSE IF cmd \in {<<"M", "1", "0", "4">>, <<"M", "1", "0", "9">>} /\ nozzleOff # 0
           THEN shifted(nozzleOff)
      ELSE IF cmd \in {<<"M", "1", "4", "0">>, <<"M", "1", "9", "0">>} /\ bedOff # 0
           THEN shifted(bedOff)
      ELSE line

applyTempTweak(lines, nozzleOff, bedOff) ==
  IF nozzleOff = 0 /\ bedOff = 0 THEN lines
  ELSE [i \in 1..Len(lines) |-> TempLine(lines[i], nozzleOff, bedOff)]

\* FanLine without the test for M106: every line with an S word is scaled
FanLineAnyCommand(line, pct) ==
  IF FirstS(line) = 0 THEN line
  ELSE SubSeq(line, 1, FirstS(line) - 1)
         \o ScaledS(SubSeq(line, FirstS(line) + 1,
                            FirstS(line) + NumRunLen(line, FirstS(line) + 1)), pct)
         \o From(line, FirstS(line) + NumRunLen(line, FirstS(line) + 1) + 1)

\* the callback of lines.map in applyFanOverride
FanLine(line, pct) ==
  LET stripped == Stripped(line)
      k == FirstS(line)
      n == NumRunLen(line, k + 1)
  IN  IF Len(stripped) = 0 THEN line
      ELSE IF SplitWs(stripped)[1] # <<"M", "1", "0", "6">> THEN line
      ELSE IF k = 0 THEN line
      ELSE SubSeq(line, 1, k - 1) \o ScaledS(SubSeq(line, k + 1, k + n), pct)
             \o From(line, k + n + 1)

applyFanOverride(lines, pct) ==
  IF pct = 100 THEN lines
  ELSE [i \in 1..Len(lines) |-> FanLine(lines[i], pct)]

(***************************************************************************)
(* Layer pauses and injections (filament.js:1294-1368, 1544-1617)          *)
(***************************************************************************)
Custom == <<"c", "u", "s", "t", "o", "m">>

\* lines.splice(idx, 1, ...ins): the line at idx is replaced by the block
SpliceReplacing(lines, idx, ins) ==
  LET at == IF idx > Len(lines) THEN Len(lines) ELSE idx
  IN  SubSeq(lines, 1, at) \o ins \o SubSeq(lines, at + 2, Len(lines))

\* lines.splice(idx, 0, ...ins); a start beyond the end is clamped to it
Splice(lines, idx, ins) ==
  LET at == IF idx > Len(lines) THEN Len(lines) ELSE idx
  IN  SubSeq(lines, 1, at) \o ins \o SubSeq(lines, at + 1, Len(lines))

\* Array.prototype.sort is stable: an element is placed after every earlier
\* element it does not precede
RECURSIVE InsertByLayerAsc(_, _)
InsertByLayerAsc(sorted, p) ==
  IF Len(sorted) = 0 THEN <<p>>
  ELSE IF p.layer < sorted[Len(sorted)].layer
       THEN InsertByLayerAsc(SubSeq(sorted, 1, Len(sorted) - 1), p)
              \o <<sorted[Len(sorted)]>>
       ELSE sorted \o <<p>>

\* xs.sort((a, b) => a.key - b.key) for records keyed by `layer`
RECURSIVE SortAsc(_)
SortAsc(xs) ==
  IF Len(xs) = 0 THEN <<>>
  ELSE InsertByLayerAsc(SortAsc(SubSeq(xs, 1, Len(xs) - 1)), xs[Len(xs)])

\* applyLayerPauses and applyInjections without their sort
Unsorted(xs) == xs

RECURSIVE InsertByLayerDesc(_, _)
InsertByLayerDesc(sorted, p) ==
  IF Len(sorted) = 0 THEN <<p>>
  ELSE IF p.layer > sorted[Len(sorted)].layer
       THEN InsertByLayerDesc(SubSeq(sorted, 1, Len(sorted) - 1), p)
              \o <<sorted[Len(sorted)]>>
       ELSE sorted \o <<p>>

\* [...xs].sort((a, b) => b.key - a.key)
RECURSIVE SortDesc(_)
SortDesc(xs) ==
  IF Len(xs) = 0 THEN <<>>
  ELSE InsertByLayerDesc(SortDesc(SubSeq(xs, 1, Len(xs) - 1)), xs[Len(xs)])

PauseOpen(layer) ==
  <<";", " ", "-", "-", "-", " ", "L", "a", "y", "e", "r", " ", "P", "a", "u", "s", "e", " ", "a", "t", " ", "L", "a", "y", "e", "r", " ">>
    \o IntToStr(layer) \o <<" ", "-", "-", "-">>

PauseClose ==
  <<";", " ", "-", "-", "-", " ", "E", "n", "d", " ", "L", "a", "y", "e", "r", " ", "P", "a", "u", "s", "e", " ", "-", "-", "-">>

\* the lines between the markers of a pause (filament.js:1560-1564)
PausePayload(pause) ==
  IF pause.command = Custom /\ Len(pause.customGcode) > 0
  THEN Split(pause.customGcode, NL)
  ELSE << pause.command
           \o <<" ", ";", " ", "P", "a", "u", "s", "e", " ", "a", "t", " ", "l", "a", "y", "e", "r", " ">>
           \o IntToStr(pause.layer) >>

\* insertLines of applyLayerPauses
PauseBlock(pause) ==
  <<PauseOpen(pause.layer)>> \o PausePayload(pause) \o <<PauseClose>>

\* sortedPauses.forEach that splices at the top where the map has no entry
RECURSIVE SplicePausesAtTop(_, _, _, _)
SplicePausesAtTop(lines, map, sorted, k) ==
  IF k > Len(sorted) THEN lines
  ELSE IF Undefined(map, sorted[k].layer)
       THEN SplicePausesAtTop(Splice(lines, 0, PauseBlock(sorted[k])),
                              map, sorted, k + 1)
       ELSE SplicePausesAtTop(Splice(lines, map[sorted[k].layer], PauseBlock(sorted[k])),
                              map, sorted, k + 1)

\* the body of sortedPauses.forEach, for the pauses from position k on
RECURSIVE SplicePauses(_, _, _, _)
SplicePauses(lines, map, sorted, k) ==
  IF k > Len(sorted) THEN lines
  ELSE IF Undefined(map, sorted[k].layer)
       THEN SplicePauses(lines, map, sorted, k + 1)
       ELSE SplicePauses(Splice(lines, map[sorted[k].layer], PauseBlock(sorted[k])),
                         map, sorted, k + 1)

applyLayerPauses(lines, pauses) ==
  IF Len(pauses) = 0 THEN lines
  ELSE SplicePauses(lines, findLayerStartLines(lines), SortDesc(pauses), 1)

InjectOpenLayer(n) ==
  <<";", " ", "-", "-", "-", " ", "C", "u", "s", "t", "o", "m", " ", "I", "n", "j", "e", "c", "t", "i", "o", "n", " ", "a", "t", " ", "L", "a", "y", "e", "r", " ">>
    \o IntToStr(n) \o <<" ", "-", "-", "-">>

InjectOpenLine(n) ==
  <<";", " ", "-", "-", "-", " ", "C", "u", "s", "t", "o", "m", " ", "I", "n", "j", "e", "c", "t", "i", "o", "n", " ", "a", "t", " ", "L", "i", "n", "e", " ">>
    \o IntToStr(n) \o <<" ", "-", "-", "-">>

InjectClose ==
  <<";", " ", "-", "-", "-", " ", "E", "n", "d", " ", "C", "u", "s", "t", "o", "m", " ", "I", "n", "j", "e", "c", "t", "i", "o", "n", " ", "-", "-", "-">>

\* insertLines of applyInjections, layer mode and line mode
LayerInjectBlock(inj) ==
  <<InjectOpenLayer(inj.number)>> \o Split(inj.gcode, NL) \o <<InjectClose>>

LineInjectBlock(inj) ==
  <<InjectOpenLine(inj.number)>> \o Split(inj.gcode, NL) \o <<InjectClose>>

\* injections.filter(i => i.mode === mode), keyed for the sorts above
RECURSIVE FilterMode(_, _)
FilterMode(injs, mode) ==
  IF Len(injs) = 0 THEN <<>>
  ELSE (IF injs[1].mode = mode
        THEN <<[layer |-> injs[1].number, inj |-> injs[1]]>> ELSE <<>>)
         \o FilterMode(Tail(injs), mode)

\* the body of the first sorted.forEach of applyInjections
RECURSIVE SpliceLayerInjects(_, _, _, _)
SpliceLayerInjects(lines, map, sorted, k) ==
  IF k > Len(sorted) THEN lines
  ELSE IF Undefined(map, sorted[k].layer)
       THEN SpliceLayerInjects(lines, map, sorted, k + 1)
       ELSE SpliceLayerInjects(
              Splice(lines, map[sorted[k].layer], LayerInjectBlock(sorted[k].inj)),
              map, sorted, k + 1)

\* a line number taken for a 0-based index as it is
LineIndexOneBased(number) == number

\* const insertIdx = inj.number - 1 (filament.js:1604)
LineIndex(number) == number - 1

\* the range test of a line injection (filament.js:1605)
LineIndexSkipped(insertIdx, lines) == insertIdx < 0 \/ insertIdx > Len(lines)

\* the body of the second sorted.forEach of applyInjections
RECURSIVE SpliceLineInjects(_, _, _)
SpliceLineInjects(lines, sorted, k) ==
  IF k > Len(sorted) THEN lines
  ELSE IF LineIndexSkipped(LineIndex(sorted[k].layer), lines)
       THEN SpliceLineInjects(lines, sorted, k + 1)
       ELSE SpliceLineInjects(
              Splice(lines, LineIndex(sorted[k].layer), LineInjectBlock(sorted[k].inj)),
              sorted, k + 1)

\* the map the layer injections use: built from the lines applyInjections is given
InjectionLayerMap(lines) == findLayerStartLines(lines)

applyLayerInjections(lines, injs) ==
  LET layerInjects == FilterMode(injs, "layer")
  IN  IF Len(layerInjects) = 0 THEN lines
      ELSE SpliceLayerInjects(lines, InjectionLayerMap(lines),
                              SortDesc(layerInjects), 1)

applyLineInjections(lines, injs) ==
  LET lineInjects == FilterMode(injs, "line")
  IN  IF Len(lineInjects) = 0 THEN lines
      ELSE SpliceLineInjects(lines, SortDesc(lineInjects), 1)

applyInjections(lines, injs) ==
  IF Len(injs) = 0 THEN lines
  ELSE applyLineInjections(applyLayerInjections(lines, injs), injs)

(***************************************************************************)
(* gcodeParser.parse and _detectWarnings (unnamed/part_003:4-208), without *)
(* the speed and filament metrics                                          *)
(***************************************************************************)
\* parseFloat of a parameter's text: an optional sign, then a decimal numeral
\* (inputs hold no exponent)
ParseFloatSigned(s) ==
  IF Len(s) > 0 /\ s[1] \in {"-", "+"}
  THEN LET v == ParseFloat(Tail(s))
       IN  IF v.nan THEN NaN ELSE IF s[1] = "-" THEN Num(-v.num, v.den) ELSE v
  ELSE ParseFloat(s)

\* a === b for numbers
NumEq(a, b) == ~a.nan /\ ~b.nan /\ a.num * b.den = b.num * a.den

\* Math.min(a, b) and Math.max(a, b)
MathMin(a, b) == IF a.nan \/ b.nan THEN NaN ELSE IF NumLess(b, a) THEN b ELSE a
MathMax(a, b) == IF a.nan \/ b.nan THEN NaN ELSE IF NumLess(a, b) THEN b ELSE a

\* parseFloat(x.toFixed(k)) with scale = 10^k: x rounded to k decimals
RoundTo(x, scale) ==
  IF x.nan THEN NaN
  ELSE IF x.num < 0 THEN Num(-Round(-x.num * scale, x.den), scale)
  ELSE Num(Round(x.num * scale, x.den), scale)

NumSub(a, b) ==
  IF a.nan \/ b.nan THEN NaN ELSE Num(a.num * b.den - b.num * a.den, a.den * b.den)

NumAdd(a, b) ==
  IF a.nan \/ b.nan THEN NaN ELSE Num(a.num * b.den + b.num * a.den, a.den * b.den)

NumMul(a, b) == IF a.nan \/ b.nan THEN NaN ELSE Num(a.num * b.num, a.den * b.den)

\* Math.abs
NumAbs(a) == IF a.nan THEN NaN ELSE IF a.num < 0 THEN Num(-a.num, a.den) ELSE a

\* params[letter] of the loop over parts (part_003:61-68): the value of the
\* last token that starts with letter, NULL when there is none
ParamOf(parts, letter) ==
  LET hits == {j \in 2..Len(parts) : Len(parts[j]) > 0 /\ parts[j][1] = letter}
  IN  IF hits = {} THEN NULL ELSE Some(ParseFloatSigned(Tail(parts[Max(hits)])))

\* the locals of parse before its loop (part_003:6-32); minX and minY are NULL
\* while they are Infinity; travelDistance is the list of the squared lengths
\* whose square roots were added, in the order they were added
ParseInit ==
  [ lastX |-> Num(0, 1), lastY |-> Num(0, 1), lastZ |-> Num(0, 1),
    currentE |-> Num(0, 1), isAbsoluteE |-> TRUE,
    layerHeights |-> {},
    maxX |-> Num(0, 1), maxY |-> Num(0, 1), maxZ |-> Num(0, 1),
    minX |-> NULL, minY |-> NULL,
    printMoves |-> 0, travelMoves |-> 0, travelDistance |-> <<>>,
    retractionCount |-> 0, retractionDistance |-> Num(0, 1),
    nozzleTemp |-> Num(0, 1), bedTemp |-> Num(0, 1),
    estimatedTime_min |-> 0 ]

\* Math.min(result.minX, x) where result.minX may still be Infinity
MinInf(m, x) == IF m = NULL THEN Some(x) ELSE Some(MathMin(m[1], x))

\* HeightsAfter without the test z > 0
HeightsAfterAnyZ(st, z) ==
  IF ~NumEq(z, st.lastZ) THEN st.layerHeights \cup {RoundTo(z, 1000).num}
  ELSE st.layerHeights

\* layerHeights after a move to height z (part_003:80-86), in thousandths
HeightsAfter(st, z) ==
  IF ~NumEq(z, st.lastZ) /\ NumLess(Num(0, 1), z)
  THEN st.layerHeights \cup {RoundTo(z, 1000).num}
  ELSE st.layerHeights

\* result.maxZ after a move to height z (part_003:80-86)
MaxZAfter(st, z) == IF ~NumEq(z, st.lastZ) THEN MathMax(st.maxZ, z) ELSE st.maxZ

\* eChange of a move with extrusion value e (part_003:95)
EChange(st, e) == IF st.isAbsoluteE THEN NumSub(e, st.currentE) ELSE e

\* (x - lastX) ** 2 + (y - lastY) ** 2, the square of dist (part_003:94)
Dist2(st, x, y) ==
  NumAdd(NumMul(NumSub(x, st.lastX), NumSub(x, st.lastX)),
          NumMul(NumSub(y, st.lastY), NumSub(y, st.lastY)))

\* Classified with the travel branch taken by retractions too
ClassifiedRetractionTravels(st, eChange, dist2) ==
  IF NumLess(Num(0, 1), eChange)
  THEN [st EXCEPT !.printMoves = @ + 1]
  ELSE IF NumLess(eChange, Num(0, 1))
  THEN [st EXCEPT !.retractionCount = @ + 1,
                  !.retractionDistance = NumAdd(@, NumAbs(eChange)),
                  !.travelDistance = Append(@, dist2)]
  ELSE [st EXCEPT !.travelMoves = @ + 1,
                  !.travelDistance = Append(@, dist2)]

\* the three-way classification of a move with X or Y (part_003:97-105)
Classified(st, eChange, dist2) ==
  IF NumLess(Num(0, 1), eChange)
  THEN [st EXCEPT !.printMoves = @ + 1]
  ELSE IF NumLess(eChange, Num(0, 1))
  THEN [st EXCEPT !.retractionCount = @ + 1,
                  !.retractionDistance = NumAdd(@, NumAbs(eChange))]
  ELSE [st EXCEPT !.travelMoves = @ + 1,
                  !.travelDistance = Append(@, dist2)]

\* the bounding box after a move with X or Y to (x, y) (part_003:89-92)
Boxed(st, x, y) ==
  [st EXCEPT !.maxX = MathMax(@, x), !.maxY = MathMax(@, y),
             !.minX = MinInf(@, x), !.minY = MinInf(@, y)]

\* the body of if (params.X !== undefined || params.Y !== undefined)
WithXY(st, x, y, e) == Classified(Boxed(st, x, y), EChange(st, e), Dist2(st, x, y))

\* MoveTo storing the extrusion value in relative mode too
MoveToStoresRelativeE(st, x, y, z, e, hasXY) ==
  [ (IF hasXY THEN WithXY(st, x, y, e) ELSE st) EXCEPT
      !.lastX = x, !.lastY = y, !.lastZ = z,
      !.layerHeights = HeightsAfter(st, z),
      !.maxZ = MaxZAfter(st, z),
      !.currentE = e ]

\* the registers after a G0/G1 to (x, y, z) with extrusion value e; hasXY: the
\* line carries X or Y (part_003:71-114)
MoveTo(st, x, y, z, e, hasXY) ==
  [ (IF hasXY THEN WithXY(st, x, y, e) ELSE st) EXCEPT
      !.lastX = x, !.lastY = y, !.lastZ = z,
      !.layerHeights = HeightsAfter(st, z),
      !.maxZ = MaxZAfter(st, z),
      !.currentE = IF st.isAbsoluteE THEN e ELSE @ ]

\* params.K !== undefined ? params.K : last
ParamOr(p, last) == IF p # NULL THEN p[1] ELSE last

\* a G0/G1 whose params hold pX, pY, pZ and pE
Move(st, pX, pY, pZ, pE) ==
  MoveTo(st, ParamOr(pX, st.lastX), ParamOr(pY, st.lastY), ParamOr(pZ, st.lastZ),
         ParamOr(pE, IF st.isAbsoluteE THEN st.currentE ELSE Num(0, 1)),
         pX # NULL \/ pY # NULL)

\* the movement commands (part_003:71-114)
Moved(st, parts) ==
  IF parts[1] \notin {<<"G", "0">>, <<"G", "1">>} THEN st
  ELSE Move(st, ParamOf(parts, "X"), ParamOf(parts, "Y"), ParamOf(parts, "Z"),
            ParamOf(parts, "E"))

\* M82, M83 and G92 with E (part_003:117-121)
Extrusion(st, code, pE) ==
  IF code = <<"G", "9", "2">> /\ pE # NULL THEN [st EXCEPT !.currentE = pE[1]]
  ELSE IF code = <<"M", "8", "2">> THEN [st EXCEPT !.isAbsoluteE = TRUE]
  ELSE IF code = <<"M", "8", "3">> THEN [st EXCEPT !.isAbsoluteE = FALSE]
  ELSE st

\* params.S as a condition: defined, not NaN and not 0
Truthy(p) == p # NULL /\ ~p[1].nan /\ p[1].num # 0

\* Temperatures keeping the last value instead of the maximum
TemperaturesLastValue(st, code, pS) ==
  IF ~Truthy(pS) THEN st
  ELSE IF code \in {<<"M", "1", "0", "4">>, <<"M", "1", "0", "9">>}
  THEN [st EXCEPT !.nozzleTemp = pS[1]]
  ELSE IF code \in {<<"M", "1", "4", "0">>, <<"M", "1", "9", "0">>}
  THEN [st EXCEPT !.bedTemp = pS[1]]
  ELSE st

\* the temperature commands (part_003:124-129)
Temperatures(st, code, pS) ==
  IF ~Truthy(pS) THEN st
  ELSE IF code \in {<<"M", "1", "0", "4">>, <<"M", "1", "0", "9">>}
  THEN [st EXCEPT !.nozzleTemp = MathMax(@, pS[1])]
  ELSE IF code \in {<<"M", "1", "4", "0">>, <<"M", "1", "9", "0">>}
  THEN [st EXCEPT !.bedTemp = MathMax(@, pS[1])]
  ELSE st

\* a command line split into parts (part_003:59-129)
ParseParts(st, parts) ==
  Temperatures(Extrusion(Moved(st, parts), parts[1], ParamOf(parts, "E")),
               parts[1], ParamOf(parts, "S"))

\* line.includes(p)
Includes(line, p) ==
  \E k \in 1..(Len(line) - Len(p) + 1) : SubSeq(line, k, k + Len(p) - 1) = p

\* line.match(/(\d+)/): the first run of digits of the line, NULL without one
FirstDigits(line) ==
  IF \A k \in 1..Len(line) : line[k] \notin Digits THEN NULL
  ELSE Some(SubSeq(line, Min({k \in 1..Len(line) : line[k] \in Digits}),
                   Min({k \in 1..Len(line) : line[k] \in Digits})
                     + DigitRunLen(line, Min({k \in 1..Len(line) : line[k] \in Digits})) - 1))

\* the slicer comment with the print time in seconds (part_003:38-46)
ParseComment(st, line) ==
  IF /\ \/ StartsWith(line, <<";", "T", "I", "M", "E", ":">>)
        \/ StartsWith(line, <<";", " ", "e", "s", "t", "i", "m", "a", "t", "e", "d", " ", "p", "r", "i", "n", "t", "i", "n", "g", " ", "t", "i", "m", "e">>)
     /\ FirstDigits(line) # NULL
     /\ Includes(line, <<"T", "I", "M", "E", ":">>)
  THEN [st EXCEPT !.estimatedTime_min = Round(ParseInt(FirstDigits(line)[1]), 60)]
  ELSE st

\* a trimmed line (part_003:36-57)
ParseTrimmed(st, line) ==
  IF Len(line) = 0 \/ line[1] = ";" THEN ParseComment(st, line)
  ELSE IF Len(Stripped(line)) = 0 THEN st
  ELSE ParseParts(st, SplitWs(Stripped(line)))

\* one iteration of the loop of parse (part_003:34-130)
ParseLine(st, raw) == ParseTrimmed(st, Trim(raw))

RECURSIVE ParsePrefix(_, _)
ParsePrefix(lines, n) ==
  IF n = 0 THEN ParseInit ELSE ParseLine(ParsePrefix(lines, n - 1), lines[n])

\* result.minX === Infinity ? 0 : result.minX
Finite(m) == IF m = NULL THEN Num(0, 1) ELSE m[1]

\* [...layerHeights].sort((a, b) => a - b)
RECURSIVE SortedHeights(_)
SortedHeights(heights) ==
  IF heights = {} THEN <<>>
  ELSE <<Min(heights)>> \o SortedHeights(heights \ {Min(heights)})

\* the number of sorted heights the deltas are taken from (part_003:139)
DeltaWindow == 20

\* diffs (part_003:138-141): the deltas of neighbours among the first
\* DeltaWindow sorted heights, in thousandths
Diffs(sorted) ==
  [i \in 1..(Min({Len(sorted), DeltaWindow}) - 1) |-> sorted[i + 1] - sorted[i]]

\* counts[d] (part_003:143-144)
CountOf(diffs, d) == Cardinality({i \in 1..Len(diffs) : diffs[i] = d})

\* the key String(d) of a delta of d thousandths is an integer index of the
\* object: a canonical numeral of a whole number
IsIndexKey(d) == d % 1000 = 0

\* the position of the key of d in Object.entries(counts): integer keys come
\* first in ascending order, then the other keys in the order they were added
EntryRank(diffs, d) ==
  IF IsIndexKey(d)
  THEN Cardinality({e \in {diffs[i] : i \in 1..Len(diffs)} : IsIndexKey(e) /\ e < d})
  ELSE Cardinality({e \in {diffs[i] : i \in 1..Len(diffs)} : IsIndexKey(e)})
         + Min({i \in 1..Len(diffs) : diffs[i] = d})

\* Object.entries(counts).sort((a, b) => b[1] - a[1])[0][0]: the first entry
\* with the greatest count (the sort is stable)
MostCommon(diffs) ==
  CHOOSE d \in {diffs[i] : i \in 1..Len(diffs)} :
    \A e \in {diffs[i] : i \in 1..Len(diffs)} :
      \/ CountOf(diffs, e) < CountOf(diffs, d)
      \/ CountOf(diffs, e) = CountOf(diffs, d) /\ EntryRank(diffs, d) <= EntryRank(diffs, e)

\* result.layerHeight (part_003:136-148)
LayerHeightOf(sorted) ==
  IF Len(sorted) >= 2 THEN Num(MostCommon(Diffs(sorted)), 1000) ELSE Num(0, 1)

\* the thresholds of _detectWarnings (part_003:178-202)
ThinTenths == 4
RetractionLimit == 5000
LongPrintMinutes == 600
LayerHeightHundredths == 15
HotNozzle == 260
PrintMoveLimit == 100

\* the entries _detectWarnings pushes; message holds the text before the dash
ThinWarning ==
  [level |-> "warning", message |-> "Very thin dimensions detected"]
RetractionWarning ==
  [level |-> "warning", message |-> "High retraction count"]
LongPrintInfo ==
  [level |-> "info", message |-> "Long print with moderate detail. Consider thicker layers to save time."]
NozzleWarning ==
  [level |-> "warning", message |-> "High nozzle temperature"]
BedError ==
  [level |-> "error", message |-> "No heated bed commands detected"]

\* _detectWarnings with the bed rule in an else branch of the nozzle rule
detectWarningsElseBed(result) ==
  (IF \/ NumLess(result.dimensions.x, Num(ThinTenths, 10))
      \/ NumLess(result.dimensions.y, Num(ThinTenths, 10))
   THEN <<ThinWarning>> ELSE <<>>)
  \o (IF result.retractionCount > RetractionLimit THEN <<RetractionWarning>> ELSE <<>>)
  \o (IF /\ result.estimatedTime_min > LongPrintMinutes
         /\ NumLess(Num(LayerHeightHundredths, 100), result.layerHeight)
      THEN <<LongPrintInfo>> ELSE <<>>)
  \o (IF NumLess(Num(HotNozzle, 1), result.nozzleTemp) THEN <<NozzleWarning>>
      ELSE IF NumEq(result.bedTemp, Num(0, 1)) /\ result.printMoves > PrintMoveLimit
      THEN <<BedError>> ELSE <<>>)

\* _detectWarnings without the test bedTemp === 0
detectWarningsAnyBed(result) ==
  (IF \/ NumLess(result.dimensions.x, Num(ThinTenths, 10))
      \/ NumLess(result.dimensions.y, Num(ThinTenths, 10))
   THEN <<ThinWarning>> ELSE <<>>)
  \o (IF result.retractionCount > RetractionLimit THEN <<RetractionWarning>> ELSE <<>>)
  \o (IF /\ result.estimatedTime_min > LongPrintMinutes
         /\ NumLess(Num(LayerHeightHundredths, 100), result.layerHeight)
      THEN <<LongPrintInfo>> ELSE <<>>)
  \o (IF NumLess(Num(HotNozzle, 1), result.nozzleTemp) THEN <<NozzleWarning>> ELSE <<>>)
  \o (IF result.printMoves > PrintMoveLimit THEN <<BedError>> ELSE <<>>)

\* _detectWarnings (part_003:177-208)
detectWarnings(result) ==
  (IF \/ NumLess(result.dimensions.x, Num(ThinTenths, 10))
      \/ NumLess(result.dimensions.y, Num(ThinTenths, 10))
   THEN <<ThinWarning>> ELSE <<>>)
  \o (IF result.retractionCount > RetractionLimit THEN <<RetractionWarning>> ELSE <<>>)
  \o (IF /\ result.estimatedTime_min > LongPrintMinutes
         /\ NumLess(Num(LayerHeightHundredths, 100), result.layerHeight)
      THEN <<LongPrintInfo>> ELSE <<>>)
  \o (IF NumLess(Num(HotNozzle, 1), result.nozzleTemp) THEN <<NozzleWarning>> ELSE <<>>)
  \o (IF NumEq(result.bedTemp, Num(0, 1)) /\ result.printMoves > PrintMoveLimit
      THEN <<BedError>> ELSE <<>>)

\* the result before _detectWarnings (part_003:132-169)
ParseResult(st, sorted, minX, minY) ==
  [ layerCount |-> Len(sorted),
    firstLayerHeight |-> IF Len(sorted) >= 2 THEN Num(sorted[1], 1000) ELSE Num(0, 1),
    layerHeight |-> LayerHeightOf(sorted),
    maxX |-> st.maxX, maxY |-> st.maxY, maxZ |-> st.maxZ,
    minX |-> minX, minY |-> minY,
    dimensions |-> [ x |-> RoundTo(NumSub(st.maxX, minX), 10),
                     y |-> RoundTo(NumSub(st.maxY, minY), 10),
                     z |-> RoundTo(st.maxZ, 10) ],
    printMoves |-> st.printMoves, travelMoves |-> st.travelMoves,
    travelDistance |-> st.travelDistance,
    retractionCount |-> st.retractionCount,
    retractionDistance |-> st.retractionDistance,
    nozzleTemp |-> st.nozzleTemp, bedTemp |-> st.bedTemp,
    estimatedTime_min |-> st.estimatedTime_min ]

\* this._detectWarnings(result) (part_003:172)
WithWarnings(result) ==
  [ f \in DOMAIN result \cup {"warnings"} |->
      IF f = "warnings" THEN detectWarnings(result) ELSE result[f] ]

\* the post-processing of parse (part_003:132-174)
ParseFinish(st) ==
  WithWarnings(ParseResult(st, SortedHeights(st.layerHeights),
                           Finite(st.minX), Finite(st.minY)))

ParseLines(lines) == ParseFinish(ParsePrefix(lines, Len(lines)))

parse(gcodeText) == ParseLines(Split(gcodeText, NL))

(***************************************************************************)
(* applyAutoEject (filament.js:1619-1731)                                  *)
(***************************************************************************)
\* the values of the auto-eject number inputs: the values the source falls
\* back to when an input is empty
CoolTargetTemp == 30
CoolWaitTime == 60
ShakeDistance == 2
ShakeSpeed == 3000
ShakeReps == 10
PushDistance == 30
PushSpeed == 300

\* the options of #gc-pp-printer
Printers == {"bambu_a1", "kobra_s1"}

\* String(x) of a non-negative decimal fraction: no trailing zeros, no dot for
\* an integer
RECURSIVE DecToStr(_, _)
DecToStr(n, d) ==
  IF d > 1 /\ n % 10 = 0 THEN DecToStr(n \div 10, d \div 10)
  ELSE IF d = 1 THEN IntToStr(n)
  ELSE LET frac == NatToStr(n % d)
           zeros == [k \in 1..(Len(NatToStr(d)) - 1 - Len(frac)) |-> "0"]
       IN  IntToStr(n \div d) \o <<".">> \o zeros \o frac

NumToStr(x) == IF x.nan THEN <<"N", "a", "N">> ELSE DecToStr(x.num, x.den)

\* x.toFixed(1) of a non-negative fraction
ToFixed1(x) ==
  IF x.nan THEN <<"N", "a", "N">>
  ELSE LET r == Round(x.num * 10, x.den)
       IN  IntToStr(r \div 10) \o <<".">> \o <<DigitChar(r % 10)>>

\* a || b for numbers: b when a is 0 or NaN
OrElse(a, b) == IF a.nan \/ a.num = 0 THEN b ELSE a

\* Math.max(a, b) for a number a and a constant b
MaxNum(a, b) == IF a.nan THEN NaN ELSE IF NumLess(a, b) THEN b ELSE a

CoolBlock(isBambu) ==
  << <<";", " ", "-", "-", "-", " ", "C", "o", "o", "l", " ", "&", " ", "R", "e", "l", "e", "a", "s", "e", " ", "-", "-", "-">>,
     <<"M", "1", "0", "4", " ", "S", "0", " ", ";", " ", "T", "u", "r", "n", " ", "o", "f", "f", " ", "n", "o", "z", "z", "l", "e", " ", "h", "e", "a", "t", "e", "r">>,
     <<"M", "1", "4", "0", " ", "S">> \o IntToStr(CoolTargetTemp) \o <<" ", ";", " ", "S", "e", "t", " ", "b", "e", "d", " ", "t", "o", " ", "t", "a", "r", "g", "e", "t", " ", "c", "o", "o", "l", " ", "t", "e", "m", "p", "e", "r", "a", "t", "u", "r", "e">>,
     <<"G", "9", "1", " ", ";", " ", "R", "e", "l", "a", "t", "i", "v", "e", " ", "p", "o", "s", "i", "t", "i", "o", "n", "i", "n", "g">>,
     <<"G", "1", " ", "E", "-", "2", " ", "F", "1", "8", "0", "0", " ", ";", " ", "R", "e", "t", "r", "a", "c", "t", " ", "f", "i", "l", "a", "m", "e", "n", "t">>,
     <<"G", "1", " ", "Z", "1", "0", " ", "F", "3", "0", "0", "0", " ", ";", " ", "L", "i", "f", "t", " ", "n", "o", "z", "z", "l", "e", " ", "a", "w", "a", "y", " ", "f", "r", "o", "m", " ", "p", "r", "i", "n", "t">>,
     <<"G", "9", "0", " ", ";", " ", "A", "b", "s", "o", "l", "u", "t", "e", " ", "p", "o", "s", "i", "t", "i", "o", "n", "i", "n", "g">> >>
    \o (IF isBambu THEN << <<"G", "2", "8", " ", "X", " ", ";", " ", "H", "o", "m", "e", " ", "X", " ", "a", "x", "i", "s">> >>
        ELSE << <<"G", "1", " ", "X", "0", " ", "Y">> \o IntToStr(IF isBambu THEN 256 ELSE 220) \o <<" ", "F", "6", "0", "0", "0", " ", ";", " ", "M", "o", "v", "e", " ", "t", "o", " ", "f", "r", "o", "n", "t">> >>)
    \o << <<"M", "1", "9", "0", " ", "S">> \o IntToStr(CoolTargetTemp) \o <<" ", ";", " ", "W", "a", "i", "t", " ", "f", "o", "r", " ", "b", "e", "d", " ", "t", "o", " ", "c", "o", "o", "l", " ", "t", "o", " ">> \o IntToStr(CoolTargetTemp) \o <<"C">>,
          <<"G", "4", " ", "S">> \o IntToStr(CoolWaitTime) \o <<" ", ";", " ", "W", "a", "i", "t", " ">> \o IntToStr(CoolWaitTime) \o <<" ", "s", "e", "c", "o", "n", "d", "s", " ", "f", "o", "r", " ", "p", "a", "r", "t", " ", "r", "e", "l", "e", "a", "s", "e">>,
          <<"M", "1", "4", "0", " ", "S", "0", " ", ";", " ", "T", "u", "r", "n", " ", "o", "f", "f", " ", "b", "e", "d", " ", "c", "o", "m", "p", "l", "e", "t", "e", "l", "y">> >>

\* the lines one pass of the shake loop pushes
ShakePair ==
  << <<"G", "1", " ", "Y">> \o IntToStr(ShakeDistance) \o <<" ", "F">> \o IntToStr(ShakeSpeed) \o <<" ", ";", " ", "S", "h", "a", "k", "e", " ", "f", "o", "r", "w", "a", "r", "d">>,
     <<"G", "1", " ", "Y", "-">> \o IntToStr(ShakeDistance) \o <<" ", "F">> \o IntToStr(ShakeSpeed) \o <<" ", ";", " ", "S", "h", "a", "k", "e", " ", "b", "a", "c", "k", "w", "a", "r", "d">> >>

RECURSIVE ShakeLoop(_)
ShakeLoop(reps) == IF reps = 0 THEN <<>> ELSE ShakePair \o ShakeLoop(reps - 1)

ShakeBlock(isBambu, coolEnabled) ==
  << <<";", " ", "-", "-", "-", " ", "B", "e", "d", " ", "S", "h", "a", "k", "e", " ", "-", "-", "-">> >>
    \o (IF ~coolEnabled
        THEN << <<"G", "9", "1", " ", ";", " ", "R", "e", "l", "a", "t", "i", "v", "e", " ", "p", "o", "s", "i", "t", "i", "o", "n", "i", "n", "g">>,
                <<"G", "1", " ", "Z", "5", " ", "F", "3", "0", "0", "0", " ", ";", " ", "L", "i", "f", "t", " ", "n", "o", "z", "z", "l", "e", " ", "f", "i", "r", "s", "t">> >>
        ELSE <<>>)
    \o << <<"G", "9", "0", " ", ";", " ", "A", "b", "s", "o", "l", "u", "t", "e", " ", "p", "o", "s", "i", "t", "i", "o", "n", "i", "n", "g">>,
          <<"G", "1", " ", "Y">> \o IntToStr(IF isBambu THEN 128 ELSE 110) \o <<" ", "F", "6", "0", "0", "0", " ", ";", " ", "M", "o", "v", "e", " ", "t", "o", " ", "b", "e", "d", " ", "c", "e", "n", "t", "e", "r", " ", "Y">>,
          <<"G", "9", "1", " ", ";", " ", "R", "e", "l", "a", "t", "i", "v", "e", " ", "p", "o", "s", "i", "t", "i", "o", "n", "i", "n", "g">> >>
    \o ShakeLoop(ShakeReps)
    \o << <<"G", "9", "0", " ", ";", " ", "A", "b", "s", "o", "l", "u", "t", "e", " ", "p", "o", "s", "i", "t", "i", "o", "n", "i", "n", "g">> >>

\* the branch taken when gcodeAnalysis is set (filament.js:1694-1707)
PushMoves(analysis) ==
  LET pushZ == MaxNum(OrElse(analysis.firstLayerHeight, Num(2, 10)), Num(3, 10))
      lowX == NumAdd(OrElse(analysis.minX, Num(10, 1)), Num(-10, 1))
      approachX == MaxNum(lowX, Num(0, 1))
      midY == ToFixed1(NumAdd(OrElse(analysis.minY, Num(0, 1)),
                              IF analysis.dimensions.y.nan THEN NaN
                              ELSE Num(analysis.dimensions.y.num,
                                       analysis.dimensions.y.den * 2)))
  IN  << <<"G", "9", "0", " ", ";", " ", "A", "b", "s", "o", "l", "u", "t", "e", " ", "p", "o", "s", "i", "t", "i", "o", "n", "i", "n", "g">>,
         <<"G", "1", " ", "Z">> \o ToFixed1(pushZ) \o <<" ", "F", "1", "0", "0", "0", " ", ";", " ", "L", "o", "w", "e", "r", " ", "t", "o", " ", "p", "u", "s", "h", " ", "h", "e", "i", "g", "h", "t">>,
         <<"G", "1", " ", "X">> \o NumToStr(approachX) \o <<" ", "Y">> \o midY \o <<" ", "F", "3", "0", "0", "0", " ", ";", " ", "M", "o", "v", "e", " ", "t", "o", " ", "p", "a", "r", "t", " ", "e", "d", "g", "e">>,
         <<"G", "1", " ", "X">> \o NumToStr(NumAdd(approachX, Num(PushDistance, 1))) \o <<" ", "F">> \o IntToStr(PushSpeed) \o <<" ", ";", " ", "P", "u", "s", "h", " ", "p", "a", "r", "t", " ", "o", "f", "f", " ", "b", "e", "d">> >>

\* the branch taken when gcodeAnalysis is null (filament.js:1708-1713)
PushMovesDefault ==
  << <<"G", "9", "0", " ", ";", " ", "A", "b", "s", "o", "l", "u", "t", "e", " ", "p", "o", "s", "i", "t", "i", "o", "n", "i", "n", "g">>,
     <<"G", "1", " ", "Z", "0", ".", "3", " ", "F", "1", "0", "0", "0", " ", ";", " ", "L", "o", "w", "e", "r", " ", "t", "o", " ", "p", "u", "s", "h", " ", "h", "e", "i", "g", "h", "t">>,
     <<"G", "1", " ", "X", "1", "0", " ", "Y", "1", "1", "0", " ", "F", "3", "0", "0", "0", " ", ";", " ", "M", "o", "v", "e", " ", "t", "o", " ", "s", "t", "a", "r", "t", "i", "n", "g", " ", "p", "o", "s", "i", "t", "i", "o", "n">>,
     <<"G", "1", " ", "X">> \o IntToStr(10 + PushDistance) \o <<" ", "F">> \o IntToStr(PushSpeed) \o <<" ", ";", " ", "P", "u", "s", "h", " ", "p", "a", "r", "t">> >>

\* the push-off block without the G91 before the lift
PushBlockLiftAbsolute(analysis) ==
  << <<";", " ", "-", "-", "-", " ", "P", "u", "s", "h", "-", "O", "f", "f", " ", "-", "-", "-">> >>
    \o (IF analysis # NULL THEN PushMoves(analysis[1]) ELSE PushMovesDefault)
    \o << <<"G", "1", " ", "Z", "2", "0", " ", "F", "3", "0", "0", "0", " ", ";", " ", "L", "i", "f", "t", " ", "n", "o", "z", "z", "l", "e", " ", "a", "f", "t", "e", "r", " ", "p", "u", "s", "h">>,
          <<"G", "9", "0", " ", ";", " ", "A", "b", "s", "o", "l", "u", "t", "e", " ", "p", "o", "s", "i", "t", "i", "o", "n", "i", "n", "g">> >>

PushBlock(analysis) ==
  << <<";", " ", "-", "-", "-", " ", "P", "u", "s", "h", "-", "O", "f", "f", " ", "-", "-", "-">> >>
    \o (IF analysis # NULL THEN PushMoves(analysis[1]) ELSE PushMovesDefault)
    \o << <<"G", "9", "1", " ", ";", " ", "R", "e", "l", "a", "t", "i", "v", "e", " ", "p", "o", "s", "i", "t", "i", "o", "n", "i", "n", "g">>,
          <<"G", "1", " ", "Z", "2", "0", " ", "F", "3", "0", "0", "0", " ", ";", " ", "L", "i", "f", "t", " ", "n", "o", "z", "z", "l", "e", " ", "a", "f", "t", "e", "r", " ", "p", "u", "s", "h">>,
          <<"G", "9", "0", " ", ";", " ", "A", "b", "s", "o", "l", "u", "t", "e", " ", "p", "o", "s", "i", "t", "i", "o", "n", "i", "n", "g">> >>

\* the cleanup block with the test of the cool checkbox inverted
CleanupBlockHeatersLeft(coolEnabled) ==
  << <<";", " ", "-", "-", "-", " ", "C", "l", "e", "a", "n", "u", "p", " ", "-", "-", "-">> >>
    \o (IF coolEnabled
        THEN << <<"M", "1", "0", "4", " ", "S", "0", " ", ";", " ", "T", "u", "r", "n", " ", "o", "f", "f", " ", "n", "o", "z", "z", "l", "e">>,
                <<"M", "1", "4", "0", " ", "S", "0", " ", ";", " ", "T", "u", "r", "n", " ", "o", "f", "f", " ", "b", "e", "d">> >>
        ELSE <<>>)
    \o << <<"M", "1", "0", "7", " ", ";", " ", "T", "u", "r", "n", " ", "o", "f", "f", " ", "f", "a", "n">>,
          <<"M", "8", "4", " ", ";", " ", "D", "i", "s", "a", "b", "l", "e", " ", "s", "t", "e", "p", "p", "e", "r", "s">>,
          <<";", " ", "=", "=", "=", "=", "=", "=", "=", "=", "=", "=", " ", "E", "N", "D", " ", "A", "U", "T", "O", "-", "E", "J", "E", "C", "T", " ", "S", "E", "Q", "U", "E", "N", "C", "E", " ", "=", "=", "=", "=", "=", "=", "=", "=", "=", "=">> >>

CleanupBlock(coolEnabled) ==
  << <<";", " ", "-", "-", "-", " ", "C", "l", "e", "a", "n", "u", "p", " ", "-", "-", "-">> >>
    \o (IF ~coolEnabled
        THEN << <<"M", "1", "0", "4", " ", "S", "0", " ", ";", " ", "T", "u", "r", "n", " ", "o", "f", "f", " ", "n", "o", "z", "z", "l", "e">>,
                <<"M", "1", "4", "0", " ", "S", "0", " ", ";", " ", "T", "u", "r", "n", " ", "o", "f", "f", " ", "b", "e", "d">> >>
        ELSE <<>>)
    \o << <<"M", "1", "0", "7", " ", ";", " ", "T", "u", "r", "n", " ", "o", "f", "f", " ", "f", "a", "n">>,
          <<"M", "8", "4", " ", ";", " ", "D", "i", "s", "a", "b", "l", "e", " ", "s", "t", "e", "p", "p", "e", "r", "s">>,
          <<";", " ", "=", "=", "=", "=", "=", "=", "=", "=", "=", "=", " ", "E", "N", "D", " ", "A", "U", "T", "O", "-", "E", "J", "E", "C", "T", " ", "S", "E", "Q", "U", "E", "N", "C", "E", " ", "=", "=", "=", "=", "=", "=", "=", "=", "=", "=">> >>

\* ejectLines with the push-off block pushed before the bed-shake block
EjectLinesPushFirst(flags, printerName, analysis) ==
  LET isBambu == printerName = "bambu_a1"
  IN  << <<>>,
         <<";", " ", "=", "=", "=", "=", "=", "=", "=", "=", "=", "=", " ", "A", "U", "T", "O", "-", "E", "J", "E", "C", "T", " ", "S", "E", "Q", "U", "E", "N", "C", "E", " ", "=", "=", "=", "=", "=", "=", "=", "=", "=", "=">> >>
        \o (IF flags.cool THEN CoolBlock(isBambu) ELSE <<>>)
        \o (IF flags.push THEN PushBlock(analysis) ELSE <<>>)
        \o (IF flags.shake THEN ShakeBlock(isBambu, flags.cool) ELSE <<>>)
        \o CleanupBlock(flags.cool)

\* ejectLines of applyAutoEject
EjectLines(flags, printerName, analysis) ==
  LET isBambu == printerName = "bambu_a1"
  IN  << <<>>,
         <<";", " ", "=", "=", "=", "=", "=", "=", "=", "=", "=", "=", " ", "A", "U", "T", "O", "-", "E", "J", "E", "C", "T", " ", "S", "E", "Q", "U", "E", "N", "C", "E", " ", "=", "=", "=", "=", "=", "=", "=", "=", "=", "=">> >>
        \o (IF flags.cool THEN CoolBlock(isBambu) ELSE <<>>)
        \o (IF flags.shake THEN ShakeBlock(isBambu, flags.cool) ELSE <<>>)
        \o (IF flags.push THEN PushBlock(analysis) ELSE <<>>)
        \o CleanupBlock(flags.cool)

\* applyAutoEject with the sequence put before the lines
applyAutoEjectInFront(lines, flags, printerName, analysis) ==
  IF ~flags.cool /\ ~flags.shake /\ ~flags.push THEN lines
  ELSE EjectLines(flags, printerName, analysis) \o lines

applyAutoEject(lines, flags, printerName, analysis) ==
  IF ~flags.cool /\ ~flags.shake /\ ~flags.push THEN lines
  ELSE lines \o EjectLines(flags, printerName, analysis)


(***************************************************************************)
(* applyAndDownload (filament.js:1426-1449), the part before the dialog    *)
(***************************************************************************)
\* steps 1-3: the three line rewrites
Rewritten(text) ==
  applyFanOverride(
    applyTempTweak(applySpeedOverride(Split(text, NL), speedPct),
                   nozzleOffset, bedOffset),
    fanPct)

(***************************************************************************)
(* The application shell: switchModule and loadModule                      *)
(* (unnamed/part_000:60-111)                                               *)
(***************************************************************************)
\* the keys of MODULE_NAMES the model clicks on (part_000:4-13)
ModulePool == {"dashboard", "filament", "gcode"}

\* nothing appended for any module
NothingAppended == [m \in ModulePool |-> [container |-> 0, link |-> 0, script |-> 0]]

\* the shell after initApp has called switchModule('dashboard'), which awaits
\* the fetch of loadModule (part_000:19-20, 210, 72-73, 87)
ShellInit ==
  /\ currentModule = "dashboard"
  /\ modulesLoaded = {}
  /\ calls = << [moduleName |-> "dashboard", pc |-> "fetching"] >>
  /\ appended = NothingAppended

\* the keys of MODULE_NAMES (part_000:4-13)
MODULE_NAMES ==
  {"dashboard", "filament", "router", "gcode", "optimizer", "multicolor",
   "workshop", "analytics"}

\* the most calls of switchModule that reach loadModule
MaxCalls == 3

\* a call of switchModule, from a click on a navigation item (part_000:32-38)
\* or from the dashboard (dashboard.js:160): without a flag for the module
\* the call enters loadModule and is suspended at await fetch (part_000:61,
\* 72-74, 87); with the flag it runs to its end (part_000:77-81)
switchModule(moduleName) ==
  /\ moduleName \in MODULE_NAMES
  /\ IF moduleName \in modulesLoaded
     THEN /\ currentModule' = moduleName
          /\ UNCHANGED <<modulesLoaded, calls, appended>>
     ELSE /\ Len(calls) < MaxCalls
          /\ calls' = Append(calls, [moduleName |-> moduleName, pc |-> "fetching"])
          /\ UNCHANGED <<currentModule, modulesLoaded, appended>>
  /\ UNCHANGED <<gcodeRawText, gcodeAnalysis, layerPauses, injections, speedPct,
                 nozzleOffset, bedOffset, fanPct, printer, ejectFlags, pc,
                 rewritten, paused, injected, modifiedText, scan, parseRun,
                 detectRun>>

\* the fetch of call k resolves: loadModule goes on to await response.text()
\* (part_000:87-88)
fetchResolved(k) ==
  /\ calls[k].pc = "fetching"
  /\ calls' = [calls EXCEPT ![k].pc = "reading"]
  /\ UNCHANGED <<currentModule, modulesLoaded, appended>>
  /\ UNCHANGED <<gcodeRawText, gcodeAnalysis, layerPauses, injections, speedPct,
                 nozzleOffset, bedOffset, fanPct, printer, ejectFlags, pc,
                 rewritten, paused, injected, modifiedText, scan, parseRun,
                 detectRun>>

\* the text of call k arrives: loadModule appends the container, the
\* stylesheet link and the script and sets the flag (part_000:90-107)
textResolved(k) ==
  /\ calls[k].pc = "reading"
  /\ appended' = [appended EXCEPT ![calls[k].moduleName] =
                    [container |-> @.container + 1, link |-> @.link + 1,
                     script |-> @.script + 1]]
  /\ modulesLoaded' = modulesLoaded \cup {calls[k].moduleName}
  /\ calls' = [calls EXCEPT ![k].pc = "loaded"]
  /\ UNCHANGED currentModule
  /\ UNCHANGED <<gcodeRawText, gcodeAnalysis, layerPauses, injections, speedPct,
                 nozzleOffset, bedOffset, fanPct, printer, ejectFlags, pc,
                 rewritten, paused, injected, modifiedText, scan, parseRun,
                 detectRun>>

\* the fetch or the text of call k is rejected: the catch logs the error and
\* loadModule returns without the flag (part_000:108-110)
loadRejected(k) ==
  /\ calls[k].pc \in {"fetching", "reading"}
  /\ calls' = [calls EXCEPT ![k].pc = "loaded"]
  /\ UNCHANGED <<currentModule, modulesLoaded, appended>>
  /\ UNCHANGED <<gcodeRawText, gcodeAnalysis, layerPauses, injections, speedPct,
                 nozzleOffset, bedOffset, fanPct, printer, ejectFlags, pc,
                 rewritten, paused, injected, modifiedText, scan, parseRun,
                 detectRun>>

\* switchModule goes on after await loadModule: it shows the view and stores
\* the module as the current one (part_000:77-81)
switchResumed(k) ==
  /\ calls[k].pc = "loaded"
  /\ currentModule' = calls[k].moduleName
  /\ calls' = [calls EXCEPT ![k].pc = "done"]
  /\ UNCHANGED <<modulesLoaded, appended>>
  /\ UNCHANGED <<gcodeRawText, gcodeAnalysis, layerPauses, injections, speedPct,
                 nozzleOffset, bedOffset, fanPct, printer, ejectFlags, pc,
                 rewritten, paused, injected, modifiedText, scan, parseRun,
                 detectRun>>

NextShell ==
  \/ \E moduleName \in ModulePool : switchModule(moduleName)
  \/ \E k \in 1..Len(calls) : fetchResolved(k)
  \/ \E k \in 1..Len(calls) : textResolved(k)
  \/ \E k \in 1..Len(calls) : loadRejected(k)
  \/ \E k \in 1..Len(calls) : switchResumed(k)

(***************************************************************************)
(* Inputs                                                                  *)
(***************************************************************************)
MaxLines == 2
MaxPauses == 2
MaxInjections == 1
MaxLayer == 2
MaxPausesInject == 1
MaxScanLines == 3

\* every stream of 1..n lines drawn from pool
Streams(pool, n) == UNION {[1..k -> pool] : k \in 1..n}

\* the texts of those streams, and the empty file
Texts(pool, n) == {Join(ls, NL) : ls \in Streams(pool, n)} \cup {<<>>}

LayerPool ==
  { <<";", "L", "A", "Y", "E", "R", ":", "1">>,
    <<";", "L", "A", "Y", "E", "R", ":", "2">>,
    <<"G", "1", " ", "Z", "1">>,
    <<"G", "1", " ", "Z", "2">>,
    <<"G", "1", " ", "X", "1", " ", "F", "5", "0">> }

InjectPool ==
  { <<";", "L", "A", "Y", "E", "R", ":", "2">>,
    <<"G", "1", " ", "Z", "1">>,
    <<"G", "1", " ", "Z", "2">> }

RewritePool ==
  { <<"G", "1", " ", "X", "1", " ", "F", "1", "5", "0", "0">>,
    <<"G", "1", " ", "Z", "1", " ", "F", "2", "5", " ", ";", " ", "F", "9">>,
    <<"G", "0", " ", "F", "1", ".", "5">>,
    <<"G", "2", " ", "X", "1", " ", "F", "5", "0">>,
    <<";", " ", "F", "1", "0", "0">>,
    <<>> }

\* the options of #gc-pause-command
PauseCommands == { <<"M", "0">>, Custom }

\* texts typed into #gc-pause-custom-gcode
CustomTexts == { <<>>, <<" ", "G", "1", " ", "Z", "5">> }

\* texts typed into #gc-inject-gcode
InjectTexts == { <<>>, <<"M", "1", "1", "7">>,
                 <<"M", "4", "0", "0", "\n", "M", "3", "0", "0", " ">> }

\* positions of the speed slider; 50, 100 and 150 percent multiply the feed
\* rates of the pools without rounding error
SpeedValues == {50, 100, 150}

(***************************************************************************)
(* The handlers                                                            *)
(***************************************************************************)
NoStages ==
  /\ rewritten' = NULL /\ paused' = NULL /\ injected' = NULL
  /\ modifiedText' = NULL

Init ==
  /\ gcodeRawText = NULL
  /\ gcodeAnalysis = NULL
  /\ printer = "bambu_a1"
  /\ layerPauses = <<>>
  /\ injections = <<>>
  /\ speedPct = 100
  /\ nozzleOffset = 0
  /\ bedOffset = 0
  /\ fanPct = 100
  /\ ejectFlags = [cool |-> FALSE, shake |-> FALSE, push |-> FALSE]
  /\ pc = "idle"
  /\ rewritten = NULL /\ paused = NULL /\ injected = NULL
  /\ modifiedText = NULL
  /\ scan = NULL
  /\ parseRun = NULL
  /\ detectRun = NULL
  /\ ShellInit

\* filament.js:1104-1116
loadGcodeContent(text) ==
  /\ pc = "idle"
  /\ gcodeRawText' = Some(text)
  /\ gcodeAnalysis' = Some(parse(text))
  /\ layerPauses' = <<>>
  /\ injections' = <<>>
  /\ UNCHANGED <<printer, speedPct, nozzleOffset, bedOffset, fanPct, ejectFlags, pc,
                 rewritten, paused, injected, modifiedText, scan, parseRun, detectRun, shellVars>>

\* filament.js:1118-1133
clearLoadedFile ==
  /\ pc = "idle"
  /\ gcodeRawText' = NULL
  /\ gcodeAnalysis' = NULL
  /\ layerPauses' = <<>>
  /\ injections' = <<>>
  /\ UNCHANGED <<printer, speedPct, nozzleOffset, bedOffset, fanPct, ejectFlags, pc,
                 rewritten, paused, injected, modifiedText, scan, parseRun, detectRun, shellVars>>

\* filament.js:1294-1317; layer is parseInt of the layer input (0 stands for
\* every rejected value)
addLayerPause(layer, command, customText) ==
  /\ pc = "idle"
  /\ ~(layer = 0 \/ layer < 1)
  /\ layerPauses' =
       SortAsc(Append(layerPauses,
                      [layer |-> layer,
                       command |-> command,
                       customGcode |-> IF command = Custom THEN Trim(customText)
                                       ELSE <<>>]))
  /\ UNCHANGED <<gcodeRawText, gcodeAnalysis, printer, injections, speedPct, nozzleOffset, bedOffset,
                 fanPct, ejectFlags, pc, rewritten, paused, injected,
                 modifiedText, scan, parseRun, detectRun, shellVars>>

\* xs.splice(idx, 1) for a 1-based position
RemoveAt(xs, idx) == SubSeq(xs, 1, idx - 1) \o SubSeq(xs, idx + 1, Len(xs))

\* the remove button of a pause (filament.js:1337-1344)
removeLayerPause(idx) ==
  /\ pc = "idle"
  /\ idx \in 1..Len(layerPauses)
  /\ layerPauses' = RemoveAt(layerPauses, idx)
  /\ UNCHANGED <<gcodeRawText, gcodeAnalysis, printer, injections, speedPct, nozzleOffset, bedOffset,
                 fanPct, ejectFlags, pc, rewritten, paused, injected,
                 modifiedText, scan, parseRun, detectRun, shellVars>>

\* filament.js:1347-1368
addInjection(mode, num, gcodeText) ==
  /\ pc = "idle"
  /\ ~(num = 0 \/ num < 1 \/ Len(Trim(gcodeText)) = 0)
  /\ injections' = Append(injections,
                          [mode |-> mode, number |-> num, gcode |-> Trim(gcodeText)])
  /\ UNCHANGED <<gcodeRawText, gcodeAnalysis, printer, layerPauses, speedPct, nozzleOffset, bedOffset,
                 fanPct, ejectFlags, pc, rewritten, paused, injected,
                 modifiedText, scan, parseRun, detectRun, shellVars>>

\* the remove button of an injection (filament.js:1389-1396)
removeInjection(idx) ==
  /\ pc = "idle"
  /\ idx \in 1..Len(injections)
  /\ injections' = RemoveAt(injections, idx)
  /\ UNCHANGED <<gcodeRawText, gcodeAnalysis, printer, layerPauses, speedPct, nozzleOffset, bedOffset,
                 fanPct, ejectFlags, pc, rewritten, paused, injected,
                 modifiedText, scan, parseRun, detectRun, shellVars>>

\* the user moves #gc-speed-slider (filament.js:1249-1253)
setSpeed(pct) ==
  /\ pc = "idle"
  /\ speedPct' = pct
  /\ UNCHANGED <<gcodeRawText, gcodeAnalysis, printer, layerPauses, injections, nozzleOffset, bedOffset,
                 fanPct, ejectFlags, pc, rewritten, paused, injected,
                 modifiedText, scan, parseRun, detectRun, shellVars>>

\* the user toggles one of the auto-eject checkboxes (filament.js:1270-1285)
toggleEject(which) ==
  /\ pc = "idle"
  /\ ejectFlags' = [ejectFlags EXCEPT ![which] = ~@]
  /\ UNCHANGED <<gcodeRawText, gcodeAnalysis, printer, layerPauses, injections, speedPct, nozzleOffset,
                 bedOffset, fanPct, pc, rewritten, paused, injected,
                 modifiedText, scan, parseRun, detectRun, shellVars>>

\* filament.js:1426-1449: from the click to the await of the save dialog.  The
\* dialog is modal to the window (main.js:131), so no other handler runs until
\* it is closed.
applyAndDownload ==
  /\ pc = "idle"
  /\ gcodeRawText # NULL /\ Len(gcodeRawText[1]) > 0
  /\ LET r == Rewritten(gcodeRawText[1])
         p == applyLayerPauses(r, layerPauses)
         i == applyInjections(p, injections)
         e == applyAutoEject(i, ejectFlags, printer, gcodeAnalysis)
     IN  /\ rewritten' = Some(r)
         /\ paused' = Some(p)
         /\ injected' = Some(i)
         /\ modifiedText' = Some(Join(e, NL))
  /\ pc' = "saving"
  /\ UNCHANGED <<gcodeRawText, gcodeAnalysis, printer, layerPauses, injections, speedPct, nozzleOffset,
                 bedOffset, fanPct, ejectFlags, scan, parseRun, detectRun, shellVars>>

\* filament.js:1452-1466: the dialog returns (a path or null), the text is
\* written, and the invocation with its locals ends
saveDialogClosed ==
  /\ pc = "saving"
  /\ pc' = "idle"
  /\ NoStages
  /\ UNCHANGED <<gcodeRawText, gcodeAnalysis, printer, layerPauses, injections, speedPct, nozzleOffset,
                 bedOffset, fanPct, ejectFlags, scan, parseRun, detectRun, shellVars>>

(***************************************************************************)
(* findLayerStartLines, one loop iteration at a time                       *)
(***************************************************************************)
ScanPool ==
  LayerPool \cup { <<";", " ", "l", "a", "y", "e", "r", "_", "2">>,
                   <<"G", "0", " ", "X", "1", " ", "Z", "0", ".", "5">> }

\* the call findLayerStartLines(lines): the locals before the first iteration
ScanStart(lines) == [lines |-> lines, i |-> 0, st |-> ScanInit]

\* the loop body for line scan.i (filament.js:1742-1776)
ScanStep ==
  /\ scan # NULL
  /\ scan[1].i < Len(scan[1].lines)
  /\ scan' = Some([scan[1] EXCEPT
                     !.st = ScanLine(@, scan[1].lines[scan[1].i + 1], scan[1].i),
                     !.i = @ + 1])
  /\ UNCHANGED <<gcodeRawText, gcodeAnalysis, layerPauses, injections, speedPct,
                 nozzleOffset, bedOffset, fanPct, printer, ejectFlags, pc,
                 rewritten, paused, injected, modifiedText, parseRun, detectRun, shellVars>>

InitScan ==
  /\ gcodeRawText = NULL
  /\ gcodeAnalysis = NULL
  /\ printer = "bambu_a1"
  /\ layerPauses = <<>>
  /\ injections = <<>>
  /\ speedPct = 100
  /\ nozzleOffset = 0
  /\ bedOffset = 0
  /\ fanPct = 100
  /\ ejectFlags = [cool |-> FALSE, shake |-> FALSE, push |-> FALSE]
  /\ pc = "idle"
  /\ rewritten = NULL /\ paused = NULL /\ injected = NULL
  /\ modifiedText = NULL
  /\ scan \in {Some(ScanStart(ls)) : ls \in Streams(ScanPool, MaxScanLines)}
  /\ parseRun = NULL
  /\ detectRun = NULL
  /\ ShellInit

NextScan == ScanStep

SpecScan == InitScan /\ [][NextScan]_vars

(***************************************************************************)
(* Specifications of the post-processor                                    *)
(***************************************************************************)
\* the rewrites, with one pause and one injection to configure
Next ==
  \/ \E t \in Texts(RewritePool, MaxLines) : loadGcodeContent(t)
  \/ clearLoadedFile
  \/ \E pct \in SpeedValues : setSpeed(pct)
  \/ \E which \in {"cool", "shake", "push"} : toggleEject(which)
  \/ /\ Len(layerPauses) < MaxPauses
     /\ addLayerPause(1, <<"M", "0">>, <<>>)
  \/ \E idx \in 1..MaxPauses : removeLayerPause(idx)
  \/ /\ Len(injections) < MaxInjections
     /\ addInjection("line", 1, <<"M", "1", "1", "7">>)
  \/ \E idx \in 1..MaxInjections : removeInjection(idx)
  \/ applyAndDownload
  \/ saveDialogClosed

Spec == Init /\ [][Next]_vars

\* the shell alone, from the start of the application
SpecShell == Init /\ [][NextShell]_vars

\* the layer pauses
NextPause ==
  \/ \E t \in Texts(LayerPool, MaxLines) : loadGcodeContent(t)
  \/ clearLoadedFile
  \/ \E layer \in 0..MaxLayer, command \in PauseCommands, text \in CustomTexts :
       /\ Len(layerPauses) < MaxPauses
       /\ addLayerPause(layer, command, text)
  \/ \E idx \in 1..MaxPauses : removeLayerPause(idx)
  \/ applyAndDownload
  \/ saveDialogClosed

SpecPause == Init /\ [][NextPause]_vars

\* the injections, beside layer pauses
NextInject ==
  \/ \E t \in Texts(InjectPool, MaxLines) : loadGcodeContent(t)
  \/ clearLoadedFile
  \/ \E layer \in 1..MaxLayer, command \in PauseCommands :
       /\ Len(layerPauses) < MaxPausesInject
       /\ addLayerPause(layer, command, <<"G", "1", " ", "Z", "5">>)
  \/ \E idx \in 1..MaxPausesInject : removeLayerPause(idx)
  \/ \E num \in 0..MaxLayer, text \in InjectTexts :
       /\ Len(injections) < MaxInjections
       /\ addInjection("layer", num, text)
  \/ \E num \in 1..(MaxLines + 2), text \in InjectTexts :
       /\ Len(injections) < MaxInjections
       /\ addInjection("line", num, text)
  \/ \E idx \in 1..MaxInjections : removeInjection(idx)
  \/ applyAndDownload
  \/ saveDialogClosed

SpecInject == Init /\ [][NextInject]_vars

\* the temperature, fan and feed lines the three rewrites look at
TempPool ==
  { <<"G", "1", " ", "X", "1", " ", "F", "1", "5", "0", "0">>,
    <<"M", "1", "0", "4", " ", "S", "2", "0", "0", ".", "5">>,
    <<"M", "1", "0", "9", " ", "S", "5">>,
    <<"M", "1", "4", "0", " ", "S", "6", "0">>,
    <<"M", "1", "9", "0", " ", "S", "5">>,
    <<"M", "1", "0", "6", " ", "S", "1", "2", "8">> }

\* the values typed into #gc-temp-nozzle-offset and #gc-temp-bed-offset
OffsetValues == {0 - 10, 0, 5}

\* the positions of #gc-fan-slider
FanValues == {50, 100, 200}

\* the user edits #gc-temp-nozzle-offset (read at filament.js:1492)
setNozzleOffset(off) ==
  /\ pc = "idle"
  /\ nozzleOffset' = off
  /\ UNCHANGED <<gcodeRawText, gcodeAnalysis, printer, layerPauses, injections, speedPct,
                 bedOffset, fanPct, ejectFlags, pc, rewritten, paused, injected,
                 modifiedText, scan, parseRun, detectRun, shellVars>>

\* the user edits #gc-temp-bed-offset (read at filament.js:1493)
setBedOffset(off) ==
  /\ pc = "idle"
  /\ bedOffset' = off
  /\ UNCHANGED <<gcodeRawText, gcodeAnalysis, printer, layerPauses, injections, speedPct,
                 nozzleOffset, fanPct, ejectFlags, pc, rewritten, paused, injected,
                 modifiedText, scan, parseRun, detectRun, shellVars>>

\* the user moves #gc-fan-slider (filament.js:1256-1260)
setFan(pct) ==
  /\ pc = "idle"
  /\ fanPct' = pct
  /\ UNCHANGED <<gcodeRawText, gcodeAnalysis, printer, layerPauses, injections, speedPct,
                 nozzleOffset, bedOffset, ejectFlags, pc, rewritten, paused, injected,
                 modifiedText, scan, parseRun, detectRun, shellVars>>

\* the three rewrites with every scalar to set
NextRewrite ==
  \/ \E t \in Texts(TempPool, MaxLines) : loadGcodeContent(t)
  \/ \E pct \in SpeedValues : setSpeed(pct)
  \/ \E off \in OffsetValues : setNozzleOffset(off)
  \/ \E off \in OffsetValues : setBedOffset(off)
  \/ \E pct \in FanValues : setFan(pct)
  \/ applyAndDownload
  \/ saveDialogClosed

SpecRewrite == Init /\ [][NextRewrite]_vars

\* lines that move the bounding box and the first layer height of the analysis
EjectPool ==
  { <<"G", "1", " ", "X", "2", "0", " ", "Y", "3", "0", " ", "Z", "0", ".", "2">>,
    <<"G", "1", " ", "X", "5", "0", " ", "Z", "0", ".", "4">>,
    <<"G", "1", " ", "Z", "0", ".", "2">>,
    <<";", " ", "e", "n", "d">> }

\* the user picks a printer in #gc-pp-printer (read at filament.js:1620)
setPrinter(p) ==
  /\ pc = "idle"
  /\ printer' = p
  /\ UNCHANGED <<gcodeRawText, gcodeAnalysis, layerPauses, injections, speedPct,
                 nozzleOffset, bedOffset, fanPct, ejectFlags, pc, rewritten, paused,
                 injected, modifiedText, scan, parseRun, detectRun, shellVars>>

\* the auto-eject options
NextEject ==
  \/ \E t \in Texts(EjectPool, MaxLines) : loadGcodeContent(t)
  \/ \E which \in {"cool", "shake", "push"} : toggleEject(which)
  \/ \E p \in Printers : setPrinter(p)
  \/ applyAndDownload
  \/ saveDialogClosed

SpecEject == Init /\ [][NextEject]_vars

\* the number of lines of the streams whose parse is followed line by line
MaxParseLines == 3

\* motion, extrusion-mode and temperature lines
MovePool ==
  { <<"G", "1", " ", "X", "1", " ", "E", "1">>,
    <<"G", "1", " ", "X", "4", " ", "Y", "4", " ", "E", "0", ".", "5">>,
    <<"G", "0", " ", "X", "1", " ", "Y", "0">>,
    <<"G", "1", " ", "E", "-", "1">>,
    <<"G", "1", " ", "Z", "1", " ", "E", "2">>,
    <<"M", "8", "3">>,
    <<"M", "8", "2">>,
    <<"G", "9", "2", " ", "E", "0">>,
    <<"G", "9", "2", " ", "E", "5">>,
    <<"M", "1", "0", "4", " ", "S", "2", "0", "0">>,
    <<"M", "1", "0", "9", " ", "S", "2", "1", "0">>,
    <<"M", "1", "0", "4", " ", "S", "0">>,
    <<"M", "1", "4", "0", " ", "S", "6", "0">>,
    <<"M", "1", "9", "0", " ", "S", "0">> }

\* lines that visit heights, and the slicer's print-time comment
HeightPool ==
  { <<"G", "1", " ", "Z", "0", ".", "2">>,
    <<"G", "1", " ", "Z", "0", ".", "4">>,
    <<"G", "1", " ", "Z", "0", ".", "1">>,
    <<"G", "0", " ", "Z", "0", ".", "2", "0", "0", "4">>,
    <<"G", "1", " ", "Z", "1">>,
    <<"G", "1", " ", "Z", "3">>,
    <<"G", "1", " ", "Z", "4">>,
    <<"G", "1", " ", "X", "1", " ", "Z", "-", "1">>,
    <<"G", "1", " ", "X", "1">>,
    <<"G", "9", "2", " ", "Z", "5">>,
    <<";", "T", "I", "M", "E", ":", "3", "6", "0", "6", "0">>,
    <<";", "T", "I", "M", "E", ":", "3", "6", "0", "0", "0">> }

\* the call parse(gcodeText) for a text with the given lines: the locals
\* before the first iteration
ParseStart(lines) == [lines |-> lines, i |-> 0, st |-> ParseInit, result |-> NULL]

\* the loop body for line parseRun.i (part_003:34-130)
ParseStep ==
  /\ parseRun # NULL
  /\ parseRun[1].i < Len(parseRun[1].lines)
  /\ parseRun' = Some([parseRun[1] EXCEPT
                         !.st = ParseLine(@, parseRun[1].lines[parseRun[1].i + 1]),
                         !.i = @ + 1])
  /\ UNCHANGED <<gcodeRawText, gcodeAnalysis, layerPauses, injections, speedPct,
                 nozzleOffset, bedOffset, fanPct, printer, ejectFlags, pc,
                 rewritten, paused, injected, modifiedText, scan,
                 detectRun, shellVars>>

\* the post-processing after the loop, up to the return (part_003:132-174)
ParseReturn ==
  /\ parseRun # NULL
  /\ parseRun[1].i = Len(parseRun[1].lines)
  /\ parseRun[1].result = NULL
  /\ parseRun' = Some([parseRun[1] EXCEPT !.result = Some(ParseFinish(parseRun[1].st))])
  /\ UNCHANGED <<gcodeRawText, gcodeAnalysis, layerPauses, injections, speedPct,
                 nozzleOffset, bedOffset, fanPct, printer, ejectFlags, pc,
                 rewritten, paused, injected, modifiedText, scan,
                 detectRun, shellVars>>

\* the tab before any file is loaded, with a parse that has been called
InitParseOf(streams) ==
  /\ gcodeRawText = NULL
  /\ gcodeAnalysis = NULL
  /\ printer = "bambu_a1"
  /\ layerPauses = <<>>
  /\ injections = <<>>
  /\ speedPct = 100
  /\ nozzleOffset = 0
  /\ bedOffset = 0
  /\ fanPct = 100
  /\ ejectFlags = [cool |-> FALSE, shake |-> FALSE, push |-> FALSE]
  /\ pc = "idle"
  /\ rewritten = NULL /\ paused = NULL /\ injected = NULL
  /\ modifiedText = NULL
  /\ scan = NULL
  /\ parseRun \in {Some(ParseStart(ls)) : ls \in streams}
  /\ detectRun = NULL
  /\ ShellInit

NextParse == ParseStep \/ ParseReturn

\* the most extruding moves of a generated stream
MaxPrintMoves == 102

\* a move that extrudes, and bed commands at 60 and at 0
PrintMoveLine == <<"G", "1", " ", "X", "1", " ", "E", "1">>
BedLine60 == <<"M", "1", "4", "0", " ", "S", "6", "0">>
BedLine0 == <<"M", "1", "4", "0", " ", "S", "0">>

\* streams of n equal extruding moves around the threshold of the bed
\* diagnostic, in relative (after M83) or absolute extrusion mode, without a
\* bed command, with one at 60 or with one at 0
WarnStreams ==
  { head \o [k \in 1..n |-> PrintMoveLine] \o tail :
      head \in {<<>>, << <<"M", "8", "3">> >>},
      n \in {1} \cup ((PrintMoveLimit - 1)..MaxPrintMoves),
      tail \in {<<>>, <<BedLine60>>, <<BedLine0>>} }

\* parse on streams with many print moves
InitWarn == InitParseOf(WarnStreams)

SpecWarn == InitWarn /\ [][NextParse]_vars

\* parse on streams of moves, extrusion modes and temperatures
InitParse == InitParseOf(Streams(MovePool, MaxParseLines))

SpecParse == InitParse /\ [][NextParse]_vars

\* parse on streams of heights
InitHeights == InitParseOf(Streams(HeightPool, MaxParseLines))

SpecHeights == InitHeights /\ [][NextParse]_vars

\* lines with parameter tokens whose numeric part does not parse (a bare
\* letter, a letter followed by letters), among well-formed lines
TokenPool ==
  { <<"G", "1", " ", "X", " ", "Y", "5", " ", "E", "1">>,
    <<"G", "1", " ", "X", "a", "b", "c", " ", "Y", "2">>,
    <<"G", "1", " ", "X", "1", " ", "E">>,
    <<"G", "1", " ", "X", "2", " ", "Y", "2", " ", "E", "3">>,
    <<"G", "1", " ", "Z">>,
    <<"G", "1", " ", "Z", "0", ".", "2">>,
    <<"M", "1", "0", "4", " ", "S">>,
    <<"M", "1", "4", "0", " ", "S", "6", "0">>,
    <<"G", "0", " ", "X", "4">> }

\* parse on streams with unparsable parameter tokens
InitTokens == InitParseOf(Streams(TokenPool, MaxParseLines))

SpecTokens == InitTokens /\ [][NextParse]_vars

\* metrics records on both sides of the threshold of every rule of
\* _detectWarnings, with the fields it reads
MetricsPool ==
  { [ dimensions |-> [x |-> dx, y |-> dy],
      retractionCount |-> rc,
      estimatedTime_min |-> t,
      layerHeight |-> lh,
      nozzleTemp |-> nt,
      bedTemp |-> bt,
      printMoves |-> pm ] :
      dx \in {Num(3, 10), Num(10, 1)},
      dy \in {Num(3, 10), Num(4, 10)},
      rc \in {RetractionLimit, RetractionLimit + 1},
      t \in {LongPrintMinutes, LongPrintMinutes + 1},
      lh \in {Num(LayerHeightHundredths, 100), Num(2, 10)},
      nt \in {Num(HotNozzle, 1), Num(HotNozzle + 1, 1)},
      bt \in {Num(0, 1), Num(60, 1)},
      pm \in {PrintMoveLimit, PrintMoveLimit + 1} }

\* this._detectWarnings(result) on a record whose warnings are empty
\* (part_003:172, 177-208)
callDetectWarnings ==
  /\ detectRun # NULL
  /\ ~detectRun[1].returned
  /\ detectRun' = Some([result |-> WithWarnings(detectRun[1].result), returned |-> TRUE])
  /\ UNCHANGED <<gcodeRawText, gcodeAnalysis, layerPauses, injections, speedPct,
                 nozzleOffset, bedOffset, fanPct, printer, ejectFlags, pc,
                 rewritten, paused, injected, modifiedText, scan, parseRun,
                 shellVars>>

\* the tab before any file is loaded, with a record about to be diagnosed
InitDetect ==
  /\ gcodeRawText = NULL
  /\ gcodeAnalysis = NULL
  /\ printer = "bambu_a1"
  /\ layerPauses = <<>>
  /\ injections = <<>>
  /\ speedPct = 100
  /\ nozzleOffset = 0
  /\ bedOffset = 0
  /\ fanPct = 100
  /\ ejectFlags = [cool |-> FALSE, shake |-> FALSE, push |-> FALSE]
  /\ pc = "idle"
  /\ rewritten = NULL /\ paused = NULL /\ injected = NULL
  /\ modifiedText = NULL
  /\ scan = NULL
  /\ parseRun = NULL
  /\ detectRun \in {Some([result |-> r, returned |-> FALSE]) : r \in MetricsPool}
  /\ ShellInit

NextDetect == callDetectWarnings

SpecDetect == InitDetect /\ [][NextDetect]_vars

(***************************************************************************)
(* Claims                                                                  *)
(***************************************************************************)
Saving == pc = "saving"

\* no directive is configured
NoDirectives ==
  /\ speedPct = 100 /\ nozzleOffset = 0 /\ bedOffset = 0 /\ fanPct = 100
  /\ layerPauses = <<>> /\ injections = <<>>
  /\ ~ejectFlags.cool /\ ~ejectFlags.shake /\ ~ejectFlags.push

\* C1: with no directive configured, the text applyAndDownload produces is
\* the loaded text, and so are its lines, one for one.
C1_Identity ==
  (Saving /\ NoDirectives) =>
    /\ modifiedText = gcodeRawText
    /\ Split(modifiedText[1], NL) = Split(gcodeRawText[1], NL)

\* an invocation with no directive on a text of two lines that holds a feed rate
C1_Witness ==
  /\ Saving /\ NoDirectives
  /\ Len(Split(gcodeRawText[1], NL)) = 2
  /\ \E k \in 1..Len(gcodeRawText[1]) : gcodeRawText[1][k] = "F"

\* the tokens of the command part of a line
Tokens(line) == SplitWs(Stripped(line))

\* a token that is a feed-rate parameter: F and a numeral
IsFeedToken(tok) ==
  /\ Len(tok) >= 2 /\ tok[1] = "F"
  /\ \A k \in 2..Len(tok) : IsNumChar(tok[k])
  /\ ~ParseFloat(Tail(tok)).nan

\* F round(v * p / 100) for the feed-rate token F v
ExpectedFeed(tok, p) ==
  <<"F">> \o IntToStr(Round(ParseFloat(Tail(tok)).num * p, ParseFloat(Tail(tok)).den * 100))

\* a G0/G1 line: the first token of its command part is G0 or G1
IsMotionLine(line) ==
  Len(Stripped(line)) > 0 /\ Tokens(line)[1] \in {<<"G", "0">>, <<"G", "1">>}

\* what the claim says of one line and its rewrite at p percent
SpeedLineOk(old, new, p) ==
  IF p = 100 \/ ~IsMotionLine(old) THEN new = old
  ELSE /\ Len(Tokens(new)) = Len(Tokens(old))
       /\ \A j \in 1..Len(Tokens(old)) :
            Tokens(new)[j] = IF IsFeedToken(Tokens(old)[j])
                             THEN ExpectedFeed(Tokens(old)[j], p)
                             ELSE Tokens(old)[j]

\* C10: at 100 percent every line is unchanged; at p percent every feed-rate
\* parameter F v of a G0/G1 line becomes F round(v * p / 100), and every line
\* that is no G0/G1 line is unchanged.
C10_SpeedScaling ==
  Saving =>
    /\ Len(rewritten[1]) = Len(Split(gcodeRawText[1], NL))
    /\ \A i \in 1..Len(rewritten[1]) :
         SpeedLineOk(Split(gcodeRawText[1], NL)[i], rewritten[1][i], speedPct)

\* an invocation at 50 percent on a G0/G1 line with a feed rate and a line
\* that is no G0/G1 line but holds one; the first is rewritten, the second not
C10_Witness ==
  /\ Saving /\ speedPct = 50
  /\ Len(rewritten[1]) = 2
  /\ IsMotionLine(Split(gcodeRawText[1], NL)[1])
  /\ rewritten[1][1] # Split(gcodeRawText[1], NL)[1]
  /\ ~IsMotionLine(Split(gcodeRawText[1], NL)[2])
  /\ \E j \in 1..Len(Tokens(rewritten[1][2])) : IsFeedToken(Tokens(rewritten[1][2])[j])

\* every order of the elements of a sequence
Perms(xs) ==
  {[i \in 1..Len(xs) |-> xs[f[i]]] : f \in Permutations(1..Len(xs))}

\* no two directives of the list name the same layer
DistinctLayers(xs) ==
  \A i, j \in 1..Len(xs) : i # j => xs[i].layer # xs[j].layer

\* block stands in lines from position j on
BlockAt(lines, j, block) ==
  /\ j + Len(block) - 1 <= Len(lines)
  /\ SubSeq(lines, j, j + Len(block) - 1) = block

\* block stands in lines from position j on and the line after it is next
BlockBefore(lines, j, block, next) ==
  /\ j + Len(block) <= Len(lines)
  /\ SubSeq(lines, j, j + Len(block) - 1) = block
  /\ lines[j + Len(block)] = next

\* C2 as claimed: whatever the order of the pause list, applyLayerPauses
\* gives the lines it gave for the list as it stands.
C2_AnyOrder ==
  Saving =>
    \A q \in Perms(layerPauses) : applyLayerPauses(rewritten[1], q) = paused[1]

\* C2 as amended: for pauses on pairwise different layers, whatever the order of
\* the pause list, applyLayerPauses gives the lines it gave for the list as it
\* stands.
C2_AnyOrderDistinctLayers ==
  (Saving /\ DistinctLayers(layerPauses)) =>
    \A q \in Perms(layerPauses) : applyLayerPauses(rewritten[1], q) = paused[1]

\* two pauses on different layers, both inserted
C2_Witness ==
  /\ Saving /\ Len(layerPauses) = 2 /\ DistinctLayers(layerPauses)
  /\ \A k \in 1..2 :
       layerPauses[k].layer \in DOMAIN findLayerStartLines(rewritten[1])
  /\ Len(paused[1]) >= Len(rewritten[1]) + 6

\* C3 as claimed, for pauses on pairwise different layers: the block of every
\* pause whose layer is in the map of the lines before insertion stands right
\* before the line that was at the mapped index.
C3_BlockBeforeTarget ==
  (Saving /\ DistinctLayers(layerPauses)) =>
    \A k \in 1..Len(layerPauses) :
      layerPauses[k].layer \in DOMAIN findLayerStartLines(rewritten[1]) =>
        \E j \in 1..Len(paused[1]) :
          BlockBefore(paused[1], j, PauseBlock(layerPauses[k]),
                      rewritten[1][findLayerStartLines(rewritten[1])[layerPauses[k].layer] + 1])

\* the layer number a line announces in a layer comment, if it has one
AnnotationOf(raw) ==
  IF LayerCommentMatch(Trim(raw)) = NULL THEN NULL
  ELSE Some(ParseInt(LayerCommentMatch(Trim(raw))[1]))

\* the Z word of a G0/G1 line that is not a comment, if it has one
ZOfLine(raw) ==
  IF AnnotationOf(raw) # NULL THEN NULL
  ELSE IF Len(Trim(raw)) = 0 \/ Trim(raw)[1] = ";" THEN NULL
  ELSE IF Len(Stripped(Trim(raw))) = 0 THEN NULL
  ELSE IF ~IsMotion(Stripped(Trim(raw))) THEN NULL
  ELSE IF ZMatch(Stripped(Trim(raw))) = NULL THEN NULL
  ELSE Some(ParseFloat(ZMatch(Stripped(Trim(raw)))[1]))

\* line i (1-based) lifts Z above -1 and above every Z word before it
ZIncrease(lines, i) ==
  /\ ZOfLine(lines[i]) # NULL
  /\ NumLess(Num(-1, 1), ZOfLine(lines[i])[1])
  /\ \A j \in 1..(i - 1) :
       (ZOfLine(lines[j]) # NULL /\ ~ZOfLine(lines[j])[1].nan) =>
         NumLess(ZOfLine(lines[j])[1], ZOfLine(lines[i])[1])

\* line i (1-based) gives evidence for layer n: it announces n, or it is the
\* n-th Z increase of the stream
Evidence(lines, i, n) ==
  \/ AnnotationOf(lines[i]) = Some(n)
  \/ /\ ZIncrease(lines, i)
     /\ Cardinality({j \in 1..i : ZIncrease(lines, j)}) = n

\* the layer numbers the first `upto` lines give evidence for
EvidenceNums(lines, upto) ==
  {AnnotationOf(lines[i])[1] : i \in {k \in 1..upto : AnnotationOf(lines[k]) # NULL}}
    \cup {Cardinality({j \in 1..i : ZIncrease(lines, j)}) :
            i \in {k \in 1..upto : ZIncrease(lines, k)}}

\* the 0-based index of the first of the first `upto` lines with evidence for n
FirstEvidence(lines, upto, n) ==
  Min({i \in 1..upto : Evidence(lines, i, n)}) - 1

\* the scan has passed the last line
ScanDone == scan # NULL /\ scan[1].i = Len(scan[1].lines)

\* C4 as claimed: after the scan, a layer number that some line announces is
\* mapped to the index of the first line announcing it.
C4_AnnotationFirst ==
  ScanDone =>
    \A i \in 1..Len(scan[1].lines) :
      AnnotationOf(scan[1].lines[i]) # NULL =>
        /\ AnnotationOf(scan[1].lines[i])[1] \in DOMAIN scan[1].st.map
        /\ scan[1].st.map[AnnotationOf(scan[1].lines[i])[1]] =
             Min({j \in 1..Len(scan[1].lines) :
                    AnnotationOf(scan[1].lines[j]) = AnnotationOf(scan[1].lines[i])}) - 1

\* an iteration keeps every entry the map has
EntriesKept ==
  (scan # NULL /\ scan' # NULL) =>
    \A n \in DOMAIN scan[1].st.map :
      /\ n \in DOMAIN scan'[1].st.map
      /\ scan'[1].st.map[n] = scan[1].st.map[n]

\* after any number of iterations the map has exactly the layers the scanned
\* lines gave evidence for, each at the first line that gave it
EntriesAreFirstEvidence ==
  scan # NULL =>
    /\ DOMAIN scan[1].st.map = EvidenceNums(scan[1].lines, scan[1].i)
    /\ \A n \in DOMAIN scan[1].st.map :
         scan[1].st.map[n] = FirstEvidence(scan[1].lines, scan[1].i, n)

\* C5: during the scan no iteration changes an entry the map already has, and
\* the entry of each layer number is the index of the first line that gave
\* evidence for it (an announcement of the number, or the Z increase that
\* brought the counter to it).
C5_FirstMatchWins == [][EntriesKept]_vars /\ []EntriesAreFirstEvidence

\* a finished scan of a stream in which two lines gave evidence for one layer,
\* the later one by an announcement
C5_Witness ==
  /\ ScanDone
  /\ \E n \in DOMAIN scan[1].st.map : \E i, j \in 1..Len(scan[1].lines) :
       /\ i < j
       /\ Evidence(scan[1].lines, i, n)
       /\ AnnotationOf(scan[1].lines[j]) = Some(n)
       /\ scan[1].st.map[n] = i - 1

\* the text the invocation in progress would have produced with other pauses
\* and injections
OutputWith(pauses, injs) ==
  Join(applyAutoEject(applyInjections(applyLayerPauses(rewritten[1], pauses), injs),
                      ejectFlags, printer, gcodeAnalysis),
       NL)

\* the lines that stand right after an occurrence of block in lines
FollowSet(lines, block) ==
  {lines[j + Len(block)] : j \in {k \in 1..(Len(lines) - Len(block)) : BlockAt(lines, k, block)}}

\* the one injection configured is of the given mode
OneInjection(mode) == Len(injections) = 1 /\ injections[1].mode = mode

\* the block of a layer injection: open marker, payload lines, close marker
ExpectedLayerBlock(inj) ==
  <<InjectOpenLayer(inj.number)>> \o Split(inj.gcode, NL) \o <<InjectClose>>

\* the block of a line injection: open marker, payload lines, close marker
ExpectedLineBlock(inj) ==
  <<InjectOpenLine(inj.number)>> \o Split(inj.gcode, NL) \o <<InjectClose>>

\* C6 as claimed: the line a layer injection is placed before is the same with
\* the configured layer pauses as without any.
C6_SameTargetWithPauses ==
  (Saving /\ OneInjection("layer")) =>
    FollowSet(injected[1], ExpectedLayerBlock(injections[1])) =
      FollowSet(applyInjections(rewritten[1], injections),
                ExpectedLayerBlock(injections[1]))

C8_LineInjectionPlacement ==
  (/\ Saving /\ OneInjection("line")
   /\ injections[1].number >= 1
   /\ injections[1].number <= Len(paused[1])) =>
    /\ Len(injected[1]) = Len(paused[1]) + Len(Split(injections[1].gcode, NL)) + 2
    /\ injected[1] =
         SubSeq(paused[1], 1, injections[1].number - 1)
           \o ExpectedLineBlock(injections[1])
           \o SubSeq(paused[1], injections[1].number, Len(paused[1]))
    /\ injected[1][injections[1].number + Len(ExpectedLineBlock(injections[1]))] =
         paused[1][injections[1].number]

\* a two-line payload injected at line 2 of a stream of at least two lines
C8_Witness ==
  /\ Saving /\ OneInjection("line")
  /\ injections[1].number = 2
  /\ Len(paused[1]) >= 2
  /\ Len(Split(injections[1].gcode, NL)) = 2
  /\ Len(injected[1]) = Len(paused[1]) + 4

\* C9 as claimed: a line injection whose number is greater than the number of
\* lines leaves the stream unchanged.
C9_BeyondLastLineSkipped ==
  (/\ Saving /\ OneInjection("line")
   /\ injections[1].number > Len(paused[1])) =>
    injected[1] = paused[1]

\* the lines of the loaded text
RawLines == Split(gcodeRawText[1], NL)

\* the three rewrites with the scalars of the state
SpeedStage(ls) == applySpeedOverride(ls, speedPct)
TempStage(ls) == applyTempTweak(ls, nozzleOffset, bedOffset)
FanStage(ls) == applyFanOverride(ls, fanPct)

\* C11: the speed, temperature and fan rewrites give the same lines in each of
\* their six orders, the lines applyAndDownload got from them, and as many
\* lines as the loaded text has.
C11_RewritesCommute ==
  Saving =>
    /\ SpeedStage(TempStage(FanStage(RawLines))) = rewritten[1]
    /\ SpeedStage(FanStage(TempStage(RawLines))) = rewritten[1]
    /\ TempStage(SpeedStage(FanStage(RawLines))) = rewritten[1]
    /\ TempStage(FanStage(SpeedStage(RawLines))) = rewritten[1]
    /\ FanStage(SpeedStage(TempStage(RawLines))) = rewritten[1]
    /\ FanStage(TempStage(SpeedStage(RawLines))) = rewritten[1]
    /\ Len(rewritten[1]) = Len(RawLines)

\* every scalar is set and two of the rewrites each changed a line
C11_Witness ==
  /\ Saving
  /\ speedPct # 100 /\ nozzleOffset # 0 /\ bedOffset # 0 /\ fanPct # 100
  /\ Len(RawLines) = 2
  /\ SpeedStage(RawLines) # RawLines \/ FanStage(RawLines) # RawLines
  /\ TempStage(RawLines) # RawLines
  /\ rewritten[1][1] # RawLines[1] /\ rewritten[1][2] # RawLines[2]

\* the command token of a line, <<>> for a line without a command
CommandOf(line) ==
  IF Len(Stripped(line)) = 0 THEN <<>> ELSE SplitWs(Stripped(line))[1]

IsNozzleLine(line) ==
  CommandOf(line) \in {<<"M", "1", "0", "4">>, <<"M", "1", "0", "9">>}

IsBedLine(line) ==
  CommandOf(line) \in {<<"M", "1", "4", "0">>, <<"M", "1", "9", "0">>}

\* max(0, round(v + off)) for the decimal numeral val
ClampedSum(val, off) ==
  Max({0, Round(ParseFloat(val).num + off * ParseFloat(val).den, ParseFloat(val).den)})

\* new is old with its first S word S v replaced by S max(0, round(v + off));
\* a line without an S word is kept
TempShifted(old, new, off) ==
  IF \A k \in 1..(Len(old) - 1) : ~(old[k] = "S" /\ IsNumChar(old[k + 1]))
  THEN new = old
  ELSE \E k \in 1..(Len(old) - 1) : \E n \in 1..(Len(old) - k) :
         /\ old[k] = "S"
         /\ \A j \in 1..(k - 1) : ~(old[j] = "S" /\ IsNumChar(old[j + 1]))
         /\ \A j \in (k + 1)..(k + n) : IsNumChar(old[j])
         /\ (k + n = Len(old) \/ ~IsNumChar(old[k + n + 1]))
         /\ new = SubSeq(old, 1, k - 1) \o <<"S">>
                    \o IntToStr(ClampedSum(SubSeq(old, k + 1, k + n), off))
                    \o SubSeq(old, k + n + 1, Len(old))

\* the number after the first S word of a line, as a text; <<>> without one
SValueOf(line) ==
  IF FirstS(line) = 0 THEN <<>>
  ELSE SubSeq(line, FirstS(line) + 1, FirstS(line) + NumRunLen(line, FirstS(line) + 1))

\* C12 as claimed: every nozzle line carries S max(0, round(v + a)) and every
\* bed line S max(0, round(v + b)) after the rewrites, whatever a and b are.
C12_TempShiftedAlways ==
  Saving =>
    \A i \in 1..Len(RawLines) :
      /\ IsNozzleLine(RawLines[i]) =>
           TempShifted(RawLines[i], rewritten[1][i], nozzleOffset)
      /\ IsBedLine(RawLines[i]) =>
           TempShifted(RawLines[i], rewritten[1][i], bedOffset)

\* C12 as amended: with a nonzero nozzle offset a every nozzle line carries
\* S max(0, round(v + a)), with a nonzero bed offset b every bed line carries
\* S max(0, round(v + b)); with offset 0 the lines of that kind are kept as
\* they are, so neither offset changes a line of the other kind; no rewritten
\* temperature is negative.
C12_TempShiftedWhenSet ==
  Saving =>
    \A i \in 1..Len(RawLines) :
      /\ IsNozzleLine(RawLines[i]) =>
           /\ nozzleOffset # 0 =>
                TempShifted(RawLines[i], rewritten[1][i], nozzleOffset)
           /\ nozzleOffset = 0 => rewritten[1][i] = RawLines[i]
      /\ IsBedLine(RawLines[i]) =>
           /\ bedOffset # 0 =>
                TempShifted(RawLines[i], rewritten[1][i], bedOffset)
           /\ bedOffset = 0 => rewritten[1][i] = RawLines[i]
      /\ (IsNozzleLine(RawLines[i]) \/ IsBedLine(RawLines[i])) =>
           /\ Len(SValueOf(rewritten[1][i])) > 0
           /\ SValueOf(rewritten[1][i])[1] # "-"
           /\ ~NumLess(ParseFloat(SValueOf(rewritten[1][i])), Num(0, 1))

\* a nozzle line clamped at 0 next to a bed line left alone by the nozzle
\* offset
C12_Witness ==
  /\ Saving /\ nozzleOffset < 0 /\ bedOffset = 0
  /\ \E i, j \in 1..Len(RawLines) :
       /\ IsNozzleLine(RawLines[i])
       /\ SValueOf(rewritten[1][i]) = <<"0">>
       /\ RawLines[i] # rewritten[1][i]
       /\ IsBedLine(RawLines[j])
       /\ rewritten[1][j] = RawLines[j]

\* one of the auto-eject checkboxes is ticked
AnyEject == ejectFlags.cool \/ ejectFlags.shake \/ ejectFlags.push

EjectHeader == <<";", " ", "=", "=", "=", "=", "=", "=", "=", "=", "=", "=", " ", "A", "U", "T", "O", "-", "E", "J", "E", "C", "T", " ", "S", "E", "Q", "U", "E", "N", "C", "E", " ", "=", "=", "=", "=", "=", "=", "=", "=", "=", "=">>

EjectFooter == <<";", " ", "=", "=", "=", "=", "=", "=", "=", "=", "=", "=", " ", "E", "N", "D", " ", "A", "U", "T", "O", "-", "E", "J", "E", "C", "T", " ", "S", "E", "Q", "U", "E", "N", "C", "E", " ", "=", "=", "=", "=", "=", "=", "=", "=", "=", "=">>

\* out is the lines `staged` followed by an auto-eject sequence
EjectAppended(out, staged) ==
  /\ Len(out) >= Len(staged) + 4
  /\ SubSeq(out, 1, Len(staged)) = staged
  /\ out[Len(staged) + 1] = <<>>
  /\ out[Len(staged) + 2] = EjectHeader
  /\ out[Len(out)] = EjectFooter
  /\ \A i \in 1..Len(staged) : out[i] \notin {EjectHeader, EjectFooter}

\* C13: the lines of the rewrite and insertion stages are a prefix of the
\* output; the auto-eject lines all follow them; with no eject checkbox ticked
\* nothing is appended.
C13_EjectOnlyAppended ==
  Saving =>
    /\ ~AnyEject => modifiedText[1] = Join(injected[1], NL)
    /\ AnyEject => EjectAppended(Split(modifiedText[1], NL), injected[1])

\* an eject sequence appended to a stream that holds a pause block and an
\* injection block
C13_Witness ==
  /\ Saving /\ AnyEject
  /\ Len(layerPauses) > 0 /\ Len(paused[1]) > Len(rewritten[1])
  /\ Len(injections) > 0 /\ Len(injected[1]) > Len(paused[1])
  /\ Len(modifiedText[1]) > Len(Join(injected[1], NL))

CoolMarker == <<";", " ", "-", "-", "-", " ", "C", "o", "o", "l", " ", "&", " ", "R", "e", "l", "e", "a", "s", "e", " ", "-", "-", "-">>

ShakeMarker == <<";", " ", "-", "-", "-", " ", "B", "e", "d", " ", "S", "h", "a", "k", "e", " ", "-", "-", "-">>

PushMarker == <<";", " ", "-", "-", "-", " ", "P", "u", "s", "h", "-", "O", "f", "f", " ", "-", "-", "-">>

CleanupMarker == <<";", " ", "-", "-", "-", " ", "C", "l", "e", "a", "n", "u", "p", " ", "-", "-", "-">>

\* the positions of line m in ls
PositionsOf(ls, m) == {i \in 1..Len(ls) : ls[i] = m}

\* line m stands in ls exactly once if wanted and not at all otherwise
MarkerIff(ls, m, wanted) ==
  Cardinality(PositionsOf(ls, m)) = (IF wanted THEN 1 ELSE 0)

\* where the two markers both stand in ls, every a is before every b
MarkerBefore(ls, a, b) ==
  \A i \in PositionsOf(ls, a) : \A j \in PositionsOf(ls, b) : i < j

\* the lines of ls that start with the text p
LinesWith(ls, p) == {i \in 1..Len(ls) : StartsWith(ls[i], p)}

\* every line of ls with prefix p stands after marker a and before marker b
Between(ls, p, a, b) ==
  \A i \in LinesWith(ls, p) :
    /\ \A j \in PositionsOf(ls, a) : j < i
    /\ \A j \in PositionsOf(ls, b) : i < j

\* the appended sequence ls has its blocks in the order cool, shake, push,
\* cleanup, each of the first three exactly when its checkbox is ticked
BlocksInOrder(ls, flags) ==
  /\ ls[2] = EjectHeader /\ ls[Len(ls)] = EjectFooter
  /\ MarkerIff(ls, CoolMarker, flags.cool)
  /\ MarkerIff(ls, ShakeMarker, flags.shake)
  /\ MarkerIff(ls, PushMarker, flags.push)
  /\ MarkerIff(ls, CleanupMarker, TRUE)
  /\ MarkerBefore(ls, CoolMarker, ShakeMarker)
  /\ MarkerBefore(ls, CoolMarker, PushMarker)
  /\ MarkerBefore(ls, ShakeMarker, PushMarker)
  /\ MarkerBefore(ls, CoolMarker, CleanupMarker)
  /\ MarkerBefore(ls, ShakeMarker, CleanupMarker)
  /\ MarkerBefore(ls, PushMarker, CleanupMarker)
  /\ (LinesWith(ls, <<"M", "1", "9", "0", " ", "S">>) # {}) = flags.cool
  /\ Between(ls, <<"M", "1", "9", "0", " ", "S">>, CoolMarker, IF flags.shake THEN ShakeMarker
                 ELSE IF flags.push THEN PushMarker ELSE CleanupMarker)
  /\ Cardinality(LinesWith(ls, <<"G", "1", " ", "Y", "-">>)) = (IF flags.shake THEN ShakeReps ELSE 0)
  /\ Between(ls, <<"G", "1", " ", "Y", "-">>, ShakeMarker,
             IF flags.push THEN PushMarker ELSE CleanupMarker)
  /\ (LinesWith(ls, <<"G", "1", " ", "Z", "2", "0", " ">>) # {}) = flags.push
  /\ Between(ls, <<"G", "1", " ", "Z", "2", "0", " ">>, PushMarker, CleanupMarker)
  /\ LinesWith(ls, <<"M", "8", "4", " ">>) # {}
  /\ Between(ls, <<"M", "8", "4", " ">>, CleanupMarker, EjectFooter)

\* the lines after the first n of ls
After(ls, n) == SubSeq(ls, n + 1, Len(ls))

\* C14: for each non-empty combination of the cool, shake and push checkboxes
\* the appended sequence holds the cool-and-release block, the bed-shake
\* block, the push-off block and the cleanup block in that order; each of the
\* first three is there exactly when its checkbox is ticked, the cleanup
\* block always.
C14_BlockOrder ==
  (Saving /\ AnyEject) =>
    BlocksInOrder(After(Split(modifiedText[1], NL), Len(injected[1])), ejectFlags)

\* all three blocks appended for the printer that is not homed
C14_Witness ==
  /\ Saving
  /\ ejectFlags.cool /\ ejectFlags.shake /\ ejectFlags.push
  /\ printer = "kobra_s1"
  /\ Len(Split(modifiedText[1], NL)) > Len(injected[1]) + 2 * ShakeReps

\* the parse followed line by line has returned
Parsed == parseRun # NULL /\ parseRun[1].result # NULL

\* the tokens of the command part of a line
CommandTokens(raw) ==
  IF Len(Stripped(Trim(raw))) = 0 THEN <<>> ELSE SplitWs(Stripped(Trim(raw)))

\* the line is a G0 or G1 command
IsMove(raw) ==
  /\ Len(CommandTokens(raw)) > 0
  /\ CommandTokens(raw)[1] \in {<<"G", "0">>, <<"G", "1">>}

\* the positions of the parameter tokens of a line that start with letter
TokensOf(raw, letter) ==
  {j \in 2..Len(CommandTokens(raw)) :
     Len(CommandTokens(raw)[j]) > 0 /\ CommandTokens(raw)[j][1] = letter}

\* the line carries a parameter with the letter
HasParam(raw, letter) == TokensOf(raw, letter) # {}

\* the number of the (last) parameter of a line with the letter
ParamValue(raw, letter) ==
  ParseFloatSigned(Tail(CommandTokens(raw)[Max(TokensOf(raw, letter))]))

\* the positive Z parameters of the motion commands among the first n lines,
\* rounded to thousandths
PositiveHeights(lines, n) ==
  { RoundTo(ParamValue(lines[i], "Z"), 1000).num :
      i \in {k \in 1..n : /\ IsMove(lines[k]) /\ HasParam(lines[k], "Z")
                          /\ NumLess(Num(0, 1), ParamValue(lines[k], "Z"))} }

\* C15: layerCount is the number of distinct values, rounded to 3 decimals,
\* among the positive Z parameters of the G0/G1 commands of the stream.
C15_LayerCount ==
  Parsed =>
    parseRun[1].result[1].layerCount =
      Cardinality(PositiveHeights(parseRun[1].lines, Len(parseRun[1].lines)))

\* three moves with a Z word that visit two distinct rounded heights
C15_Witness ==
  /\ Parsed
  /\ Len(parseRun[1].lines) = 3
  /\ \A i \in 1..3 : /\ IsMove(parseRun[1].lines[i])
                     /\ HasParam(parseRun[1].lines[i], "Z")
                     /\ NumLess(Num(0, 1), ParamValue(parseRun[1].lines[i], "Z"))
  /\ ParamValue(parseRun[1].lines[1], "Z") # ParamValue(parseRun[1].lines[2], "Z")
  /\ ParamValue(parseRun[1].lines[2], "Z") # ParamValue(parseRun[1].lines[3], "Z")
  /\ ParamValue(parseRun[1].lines[1], "Z") # ParamValue(parseRun[1].lines[3], "Z")
  /\ parseRun[1].result[1].layerCount = 2

\* the sorted distinct heights of the stream behind a returned parse
HeightsOfRun == SortedHeights(PositiveHeights(parseRun[1].lines, Len(parseRun[1].lines)))

\* the delta with the greatest count that stands first in the list of deltas
FirstSeenMode(diffs) ==
  diffs[Min({i \in 1..Len(diffs) :
               \A j \in 1..Len(diffs) : CountOf(diffs, diffs[j]) <= CountOf(diffs, diffs[i])})]

\* C16: with at least two distinct heights, layerHeight is the most frequent
\* delta of neighbouring sorted heights, and among equally frequent deltas the
\* one seen first in ascending height order.
C16_ModeFirstSeen ==
  (Parsed /\ parseRun[1].result[1].layerCount >= 2) =>
    parseRun[1].result[1].layerHeight = Num(FirstSeenMode(Diffs(HeightsOfRun)), 1000)

\* the line is a motion command with an explicit X or Y
IsPlanarMove(raw) == IsMove(raw) /\ (HasParam(raw, "X") \/ HasParam(raw, "Y"))

\* the extrusion delta of a motion line read in the registers st
DeltaOf(st, raw) ==
  IF st.isAbsoluteE
  THEN IF HasParam(raw, "E") THEN NumSub(ParamValue(raw, "E"), st.currentE) ELSE Num(0, 1)
  ELSE IF HasParam(raw, "E") THEN ParamValue(raw, "E") ELSE Num(0, 1)

\* the move counters of the registers
Counters(st) ==
  <<st.printMoves, st.retractionCount, st.travelMoves, st.retractionDistance,
    st.travelDistance>>

\* the counters a planar move with extrusion delta d leaves behind
CountedAs(st, d) ==
  IF NumLess(Num(0, 1), d)
  THEN <<st.printMoves + 1, st.retractionCount, st.travelMoves,
         st.retractionDistance, st.travelDistance>>
  ELSE IF NumLess(d, Num(0, 1))
  THEN <<st.printMoves, st.retractionCount + 1, st.travelMoves,
         NumAdd(st.retractionDistance, NumAbs(d)), st.travelDistance>>
  ELSE <<st.printMoves, st.retractionCount, st.travelMoves + 1,
         st.retractionDistance, st.travelDistance>>

\* one line of the loop: before and after are the registers around the line
LineCounted(before, after, raw) ==
  IF IsPlanarMove(raw)
  THEN /\ SubSeq(Counters(after), 1, 4) = SubSeq(CountedAs(before, DeltaOf(before, raw)), 1, 4)
       /\ IF NumEq(DeltaOf(before, raw), Num(0, 1))
          THEN Len(after.travelDistance) = Len(before.travelDistance) + 1
          ELSE after.travelDistance = before.travelDistance
  ELSE Counters(after) = Counters(before)

\* every step of the loop classifies its line
StepCounted ==
  (parseRun # NULL /\ parseRun' # NULL /\ parseRun'[1].i = parseRun[1].i + 1) =>
    LineCounted(parseRun[1].st, parseRun'[1].st, parseRun[1].lines[parseRun[1].i + 1])

\* the three counters add up to the planar moves among the lines read so far
CountersAddUp ==
  parseRun # NULL =>
    parseRun[1].st.printMoves + parseRun[1].st.retractionCount + parseRun[1].st.travelMoves
      = Cardinality({k \in 1..parseRun[1].i : IsPlanarMove(parseRun[1].lines[k])})

\* C17: a motion command with an explicit X or Y increments exactly one of
\* printMoves (delta > 0), retractionCount (delta < 0, which also adds |delta|
\* to retractionDistance) and travelMoves (delta = 0, the only case that adds
\* to travelDistance); any other line changes none of them, so the three
\* counters always add up to the number of such commands read so far.
C17_ThreeWayClassification == [][StepCounted]_vars /\ []CountersAddUp

\* a print move, a retraction and a travel, each counted once
C17_Witness ==
  /\ parseRun # NULL
  /\ parseRun[1].i = 3
  /\ parseRun[1].st.printMoves = 1
  /\ parseRun[1].st.travelMoves = 1
  /\ parseRun[1].st.retractionCount = 1

\* the command word of the line is one of codes
HasCode(raw, codes) ==
  Len(CommandTokens(raw)) > 0 /\ CommandTokens(raw)[1] \in codes

NozzleCodes == {<<"M", "1", "0", "4">>, <<"M", "1", "0", "9">>}
BedCodes == {<<"M", "1", "4", "0">>, <<"M", "1", "9", "0">>}

\* the S values of the commands with one of codes among the first n lines
SValues(lines, n, codes) ==
  { ParamValue(lines[k], "S") :
      k \in {j \in 1..n : HasCode(lines[j], codes) /\ HasParam(lines[j], "S")} }

\* the largest of a set of numbers, 0 for the empty set
Largest(nums) ==
  IF nums = {} THEN Num(0, 1)
  ELSE CHOOSE m \in nums : \A n \in nums : ~NumLess(m, n)

\* C18: after every prefix of the stream nozzleTemp is the largest S value of
\* the M104/M109 commands read so far and bedTemp the largest S value of the
\* M140/M190 commands read so far, 0 if there is none; a later lower value,
\* S0 included, does not lower them.
C18_RunningMaxima ==
  parseRun # NULL =>
    /\ parseRun[1].st.nozzleTemp = Largest(SValues(parseRun[1].lines, parseRun[1].i, NozzleCodes))
    /\ parseRun[1].st.bedTemp = Largest(SValues(parseRun[1].lines, parseRun[1].i, BedCodes))

\* a nozzle command with a lower value, then S0, after the peak
C18_Witness ==
  /\ parseRun # NULL
  /\ parseRun[1].i = 3
  /\ HasCode(parseRun[1].lines[1], NozzleCodes)
  /\ HasCode(parseRun[1].lines[2], NozzleCodes)
  /\ HasCode(parseRun[1].lines[3], NozzleCodes)
  /\ NumLess(ParamValue(parseRun[1].lines[2], "S"), ParamValue(parseRun[1].lines[1], "S"))
  /\ ParamValue(parseRun[1].lines[3], "S") = Num(0, 1)
  /\ parseRun[1].st.nozzleTemp = ParamValue(parseRun[1].lines[1], "S")

\* the warnings hold an entry of a level
HasLevel(result, level) ==
  \E k \in 1..Len(result.warnings) : result.warnings[k].level = level

\* no M140 or M190 among the lines
NoBedCommand(lines) == \A k \in 1..Len(lines) : ~HasCode(lines[k], BedCodes)

\* a returned parse of a stream with print moves and without a bed command
PrintsWithoutBed ==
  /\ Parsed
  /\ parseRun[1].result[1].printMoves > 0
  /\ NoBedCommand(parseRun[1].lines)

\* C19 as stated: every stream with print moves and no bed-temperature command
\* gets an error-level diagnostic.
C19_ErrorForAnyPrintMoves ==
  PrintsWithoutBed => HasLevel(parseRun[1].result[1], "error")

\* the lines hold one bed-temperature command, and it sets 60
OneBedCommandAt60(lines) ==
  /\ Cardinality({k \in 1..Len(lines) : HasCode(lines[k], BedCodes)}) = 1
  /\ \A k \in 1..Len(lines) :
       HasCode(lines[k], BedCodes) =>
         HasParam(lines[k], "S") /\ ParamValue(lines[k], "S") = Num(60, 1)

\* a returned parse of a stream with print moves and one bed command at 60
PrintsWithBed60 ==
  /\ Parsed
  /\ parseRun[1].result[1].printMoves > 0
  /\ OneBedCommandAt60(parseRun[1].lines)

\* C19: a stream without a bed-temperature command gets an error-level
\* diagnostic exactly when it has more than PrintMoveLimit print moves; a
\* stream with print moves and one bed-temperature command at 60 gets none.
C19_ErrorAboveLimit ==
  /\ PrintsWithoutBed =>
       (HasLevel(parseRun[1].result[1], "error")
          <=> parseRun[1].result[1].printMoves > PrintMoveLimit)
  /\ PrintsWithBed60 => ~HasLevel(parseRun[1].result[1], "error")

\* a stream with one print move more than the limit and no bed command, with
\* the error-level entry
C19_Witness ==
  /\ PrintsWithoutBed
  /\ parseRun[1].result[1].printMoves = PrintMoveLimit + 1
  /\ HasLevel(parseRun[1].result[1], "error")

\* the estimated duration of a returned parse is long
LongPrint(result) == result.estimatedTime_min > LongPrintMinutes

\* the layer height of a returned parse is fine: not above the height the
\* diagnostic compares with
FineLayers(result) == ~NumLess(Num(LayerHeightHundredths, 100), result.layerHeight)

\* C20: the info-level diagnostic is appended for a long print with a fine
\* layer height, and neither for a long print with a coarse layer height nor
\* for a short print.
C20_InfoForLongFinePrint ==
  (Parsed /\ parseRun[1].result[1].layerCount >= 2) =>
    (HasLevel(parseRun[1].result[1], "info")
       <=> LongPrint(parseRun[1].result[1]) /\ FineLayers(parseRun[1].result[1]))

\* the rule table of the diagnostics: the entry of each rule and its own
\* condition on a metrics record
RuleEntries == <<ThinWarning, RetractionWarning, LongPrintInfo, NozzleWarning, BedError>>

RuleHolds(r, k) ==
  CASE k = 1 -> NumLess(r.dimensions.x, Num(4, 10)) \/ NumLess(r.dimensions.y, Num(4, 10))
    [] k = 2 -> r.retractionCount > 5000
    [] k = 3 -> r.estimatedTime_min > 600 /\ NumLess(Num(15, 100), r.layerHeight)
    [] k = 4 -> NumLess(Num(260, 1), r.nozzleTemp)
    [] k = 5 -> r.bedTemp = Num(0, 1) /\ r.printMoves > 100

\* the positions of the entry of rule k in a warnings list
RulePositions(warnings, k) == {i \in 1..Len(warnings) : warnings[i] = RuleEntries[k]}

\* the warnings are the subsequence of the rule table of the rules that hold
IsRuleSubsequence(r, warnings) ==
  /\ \A k \in 1..5 :
       Cardinality(RulePositions(warnings, k)) = IF RuleHolds(r, k) THEN 1 ELSE 0
  /\ \A i \in 1..Len(warnings) : \E k \in 1..5 : warnings[i] = RuleEntries[k]
  /\ \A j, k \in 1..5 :
       (j < k /\ RuleHolds(r, j) /\ RuleHolds(r, k)) =>
         \A a \in RulePositions(warnings, j), b \in RulePositions(warnings, k) : a < b

\* C21: the warnings list of a metrics record is exactly the subsequence of the
\* rule table (thin dimension, retraction count, long print, nozzle
\* temperature, missing bed heat) of the rules whose own condition holds, in
\* table order, each at most once.
C21_RulesIndependentOrdered ==
  (detectRun # NULL /\ detectRun[1].returned) =>
    IsRuleSubsequence(detectRun[1].result, detectRun[1].result.warnings)

\* a record on which all five rules hold, diagnosed
C21_Witness ==
  /\ detectRun # NULL
  /\ detectRun[1].returned
  /\ \A k \in 1..5 : RuleHolds(detectRun[1].result, k)
  /\ Len(detectRun[1].result.warnings) = 5

\* the numeric part of a parameter token does not parse
Unparsable(token) == ParseFloatSigned(Tail(token)).nan

\* a list of parameter tokens without the unparsable ones
RECURSIVE ParsableOnly(_)
ParsableOnly(tokens) ==
  IF Len(tokens) = 0 THEN <<>>
  ELSE IF Unparsable(tokens[1]) THEN ParsableOnly(Tail(tokens))
  ELSE <<tokens[1]>> \o ParsableOnly(Tail(tokens))

\* a command line with its unparsable parameter tokens removed
WithoutUnparsable(raw) ==
  IF Len(CommandTokens(raw)) = 0 THEN raw
  ELSE Join(<<CommandTokens(raw)[1]>> \o ParsableOnly(Tail(CommandTokens(raw))), " ")

\* some parameter token of the lines is unparsable
SomeUnparsable(lines) ==
  \E k \in 1..Len(lines) : \E j \in 2..Len(CommandTokens(lines[k])) :
    Unparsable(CommandTokens(lines[k])[j])

\* the numbers of a metrics record
NumbersOf(result) ==
  {result.maxX, result.maxY, result.maxZ, result.minX, result.minY,
   result.dimensions.x, result.dimensions.y, result.dimensions.z,
   result.layerHeight, result.firstLayerHeight, result.retractionDistance,
   result.nozzleTemp, result.bedTemp}
  \cup {result.travelDistance[k] : k \in 1..Len(result.travelDistance)}

\* some metric is not a number
HasNaN(result) == \E n \in NumbersOf(result) : n.nan

\* C22: a parameter token whose numeric part cannot be parsed has no effect:
\* parse returns the metrics of the stream without such tokens, and no metric
\* is not-a-number.
C22_UnparsableIgnored ==
  Parsed =>
    /\ parseRun[1].result[1] =
         ParseLines([k \in 1..Len(parseRun[1].lines) |-> WithoutUnparsable(parseRun[1].lines[k])])
    /\ ~HasNaN(parseRun[1].result[1])

\* a is b with some lines left out: the lines of a, in their order, occur in b
RECURSIVE IsSubsequence(_, _)
IsSubsequence(a, b) ==
  IF Len(a) = 0 THEN TRUE
  ELSE IF Len(b) = 0 THEN FALSE
  ELSE IF a[1] = b[1] THEN IsSubsequence(Tail(a), Tail(b))
  ELSE IsSubsequence(a, Tail(b))

\* how often a line occurs in a list of lines
Occurrences(lines, line) == Cardinality({k \in 1..Len(lines) : lines[k] = line})

\* two lists hold the same lines the same number of times
SameLines(a, b) ==
  /\ Len(a) = Len(b)
  /\ \A k \in 1..Len(a) : Occurrences(a, a[k]) = Occurrences(b, a[k])

\* the lists of a list, one after the other
RECURSIVE Flat(_)
Flat(lists) == IF Len(lists) = 0 THEN <<>> ELSE lists[1] \o Flat(Tail(lists))

\* the blocks of the applied directives of a list, one after the other
BlockLines(directives, Applied(_), Block(_)) ==
  Flat([k \in 1..Len(directives) |->
          IF Applied(directives[k]) THEN Block(directives[k]) ELSE <<>>])

\* the marker and payload lines of a pause and of an injection
PauseLines(pause) ==
  <<PauseOpen(pause.layer)>>
  \o (IF pause.command = Custom /\ Len(pause.customGcode) > 0
      THEN Split(pause.customGcode, NL)
      ELSE << pause.command
               \o <<" ", ";", " ", "P", "a", "u", "s", "e", " ", "a", "t", " ", "l", "a", "y", "e", "r", " ">>
               \o IntToStr(pause.layer) >>)
  \o <<PauseClose>>

InjectionLines(inj) ==
  IF inj.mode = "layer" THEN ExpectedLayerBlock(inj) ELSE ExpectedLineBlock(inj)

\* the directive finds its place in the lines it is applied to
PauseIsApplied(pause) == pause.layer \in DOMAIN findLayerStartLines(rewritten[1])

LayerInjectionIsApplied(inj) ==
  inj.mode = "layer" /\ inj.number \in DOMAIN findLayerStartLines(paused[1])

AppliedLayerInjectionLines == BlockLines(injections, LayerInjectionIsApplied, InjectionLines)

LineInjectionIsApplied(inj) ==
  /\ inj.mode = "line"
  /\ inj.number >= 1
  /\ inj.number - 1 <= Len(paused[1]) + Len(AppliedLayerInjectionLines)

\* the lines of all blocks of applied directives
InsertedLines ==
  BlockLines(layerPauses, PauseIsApplied, PauseLines)
  \o AppliedLayerInjectionLines
  \o BlockLines(injections, LineInjectionIsApplied, InjectionLines)

\* the lines the synthesizer appends for the flags and printer of the tab
SynthesizerLines == applyAutoEject(<<>>, ejectFlags, printer, gcodeAnalysis)

\* C23: the insertions delete, replace and reorder nothing: the rewritten
\* lines occur in the output in their order, the other lines of the output are
\* the lines of the blocks of the applied directives followed by the
\* synthesizer lines, and the line counts add up.
C23_InsertionsOnlyAdd ==
  Saving =>
    /\ IsSubsequence(rewritten[1], injected[1])
    /\ SameLines(injected[1], rewritten[1] \o InsertedLines)
    /\ Split(modifiedText[1], NL) = injected[1] \o SynthesizerLines
    /\ Len(Split(modifiedText[1], NL))
         = Len(rewritten[1]) + Len(InsertedLines) + Len(SynthesizerLines)

\* a pause and a line injection applied to a stream of two lines, with the
\* eject sequence appended
C23_Witness ==
  /\ Saving
  /\ Len(rewritten[1]) = 2
  /\ Len(layerPauses) = 1 /\ PauseIsApplied(layerPauses[1])
  /\ Len(injections) = 1 /\ LineInjectionIsApplied(injections[1])
  /\ Len(SynthesizerLines) > 0
  /\ Len(injected[1]) = 8

\* the appended lines of the invocation in progress
SynthesizedOf(out) == After(out, Len(injected[1]))

\* the command word of every line of ls, <<>> for a line without a command
CommandWords(ls) ==
  [i \in 1..Len(ls) |-> IF Len(CommandTokens(ls[i])) = 0 THEN <<>> ELSE CommandTokens(ls[i])[1]]

\* the positions of the command words that are among codes
CommandLines(words, codes) == {i \in 1..Len(words) : words[i] \in codes}

MotionCodes == {<<"G", "0">>, <<"G", "1">>, <<"G", "2">>, <<"G", "3">>, <<"G", "2", "8">>}

\* the last command of ls with one of codes carries S0
LastSetsZero(ls, at) ==
  /\ at # {}
  /\ HasParam(ls[Max(at)], "S")
  /\ ParamValue(ls[Max(at)], "S") = Num(0, 1)

\* after the lines ls, whose command words are words, the heaters are set to
\* 0, the fan is off, the motors are disabled and nothing was moved or heated
\* after that
SafeWords(ls, words) ==
  /\ LastSetsZero(ls, CommandLines(words, NozzleCodes))
  /\ LastSetsZero(ls, CommandLines(words, BedCodes))
  /\ CommandLines(words, {<<"M", "1", "0", "7">>}) # {}
  /\ \A i \in CommandLines(words, {<<"M", "1", "0", "6">>}) : i < Max(CommandLines(words, {<<"M", "1", "0", "7">>}))
  /\ CommandLines(words, {<<"M", "8", "4">>}) # {}
  /\ \A i \in CommandLines(words, MotionCodes \cup NozzleCodes \cup BedCodes) :
       i < Min(CommandLines(words, {<<"M", "8", "4">>}))

SafeFinalState(ls) == SafeWords(ls, CommandWords(ls))

\* C24: for every non-empty combination of the cool, shake and push flags and
\* both printers, in the appended lines the last nozzle temperature command
\* and the last bed temperature command set 0, the fan is turned off (M107),
\* the motors are disabled (M84) and no motion or heating command follows the
\* motor-disable line.
C24_SafeFinalState ==
  (Saving /\ AnyEject) => SafeFinalState(SynthesizedOf(Split(modifiedText[1], NL)))

\* the sequence without the cool block, where the cleanup block turns the
\* heaters off, on the printer that is not homed
C24_Witness ==
  /\ Saving
  /\ ~ejectFlags.cool /\ ejectFlags.shake /\ ejectFlags.push
  /\ printer = "kobra_s1"
  /\ Cardinality(CommandLines(CommandWords(SynthesizedOf(Split(modifiedText[1], NL))), NozzleCodes)) = 1

\* the moves of the sequence by their role, told by the comment of the line
IsRelativeMove(line) ==
  \/ Includes(line, <<";", " ", "R", "e", "t", "r", "a", "c", "t">>)
  \/ Includes(line, <<";", " ", "L", "i", "f", "t", " ", "n", "o", "z", "z", "l", "e">>)
  \/ Includes(line, <<";", " ", "S", "h", "a", "k", "e", " ">>)

IsAbsoluteMove(line) ==
  \/ Includes(line, <<";", " ", "H", "o", "m", "e", " ", "X">>)
  \/ Includes(line, <<";", " ", "M", "o", "v", "e", " ", "t", "o">>)
  \/ Includes(line, <<";", " ", "L", "o", "w", "e", "r", " ", "t", "o">>)
  \/ Includes(line, <<";", " ", "P", "u", "s", "h", " ", "p", "a", "r", "t">>)

PositioningCodes == {<<"G", "9", "0">>, <<"G", "9", "1">>}

\* the positioning command in effect at line i: the last G90 or G91 before
\* it, NULL when the sequence has set none yet
ModeAt(words, i) ==
  IF {j \in CommandLines(words, PositioningCodes) : j < i} = {} THEN NULL
  ELSE words[Max({j \in CommandLines(words, PositioningCodes) : j < i})]

\* every move of ls is made in the positioning mode of its role, which the
\* sequence itself has set, and ls ends in absolute positioning
DisciplinedWords(ls, words) ==
  /\ \A i \in CommandLines(words, MotionCodes) :
       /\ IsRelativeMove(ls[i]) # IsAbsoluteMove(ls[i])
       /\ IsRelativeMove(ls[i]) => ModeAt(words, i) = <<"G", "9", "1">>
       /\ IsAbsoluteMove(ls[i]) => ModeAt(words, i) = <<"G", "9", "0">>
  /\ ModeAt(words, Len(ls) + 1) = <<"G", "9", "0">>

PositioningDiscipline(ls) == DisciplinedWords(ls, CommandWords(ls))

\* C29: for every non-empty combination of the cool, shake and push flags and
\* both printers, every relative move of the appended sequence (retract,
\* nozzle lifts, shake moves) is emitted after a G91 of the sequence with no
\* G90 in between, every absolute move (park or home, bed centre, lower to
\* push height, approach, push) after a G90 with no G91 in between, and the
\* last positioning command of the sequence is G90.
C29_PositioningDiscipline ==
  (Saving /\ AnyEject) => PositioningDiscipline(SynthesizedOf(Split(modifiedText[1], NL)))

\* the relative moves among the lines ls
RelativeMoves(ls, words) ==
  {i \in CommandLines(words, MotionCodes) : IsRelativeMove(ls[i])}

\* shake and push without the cool block: the sequence starts with a relative
\* lift and holds every kind of move but the retract and the park
C29_Witness ==
  /\ Saving
  /\ ~ejectFlags.cool /\ ejectFlags.shake /\ ejectFlags.push
  /\ Cardinality(RelativeMoves(SynthesizedOf(Split(modifiedText[1], NL)),
                               CommandWords(SynthesizedOf(Split(modifiedText[1], NL)))))
       = 2 * ShakeReps + 2

\* the payload of the applied pause stands between its markers somewhere in
\* lines: the lines of the custom code for a custom pause, one line that
\* starts with the command otherwise
PayloadBetweenMarkers(lines, pause) ==
  IF pause.command = Custom
  THEN \E j \in 1..Len(lines) :
         BlockAt(lines, j, <<PauseOpen(pause.layer)>> \o Split(pause.customGcode, NL)
                             \o <<PauseClose>>)
  ELSE \E j \in 1..(Len(lines) - 2) :
         /\ lines[j] = PauseOpen(pause.layer)
         /\ StartsWith(lines[j + 1], pause.command)
         /\ lines[j + 2] = PauseClose

\* the command word of some line of lines is the word custom
CustomEmitted(lines) ==
  \E i \in 1..Len(lines) : HasCode(lines[i], {Custom})

\* C28: the payload of every applied layer pause is the lines of its custom
\* code when its command is custom and one line starting with its command
\* otherwise, and no line of the output has the word custom as its command.
C28_PausePayload ==
  Saving =>
    /\ \A k \in 1..Len(layerPauses) :
         PauseIsApplied(layerPauses[k]) => PayloadBetweenMarkers(paused[1], layerPauses[k])
    /\ ~CustomEmitted(Split(modifiedText[1], NL))

\* the lines of block stand on consecutive lines somewhere in lines
StandsContiguous(lines, block) ==
  \E j \in 1..Len(lines) : BlockAt(lines, j, block)

\* C27: in the final output the block of every applied pause, layer injection
\* and line injection stands as its open marker, its payload lines and its
\* close marker on consecutive lines.
C27_BlocksContiguous ==
  Saving =>
    /\ \A k \in 1..Len(layerPauses) :
         PauseIsApplied(layerPauses[k])
           => StandsContiguous(injected[1], PauseLines(layerPauses[k]))
    /\ \A k \in 1..Len(injections) :
         (LayerInjectionIsApplied(injections[k]) \/ LineInjectionIsApplied(injections[k]))
           => StandsContiguous(injected[1], InjectionLines(injections[k]))

\* the extrusion mode and accumulator a line leaves behind, read from its text
ModeAfter(st, raw) ==
  IF HasCode(raw, {<<"M", "8", "2">>}) THEN TRUE
  ELSE IF HasCode(raw, {<<"M", "8", "3">>}) THEN FALSE
  ELSE st.isAbsoluteE

AccumulatorAfter(st, raw) ==
  IF IsMove(raw)
  THEN IF st.isAbsoluteE /\ HasParam(raw, "E") THEN ParamValue(raw, "E") ELSE st.currentE
  ELSE IF HasCode(raw, {<<"G", "9", "2">>}) /\ HasParam(raw, "E") THEN ParamValue(raw, "E")
  ELSE st.currentE

\* one line of the loop moves the extrusion registers as its text says, and a
\* planar move is counted by the sign of its delta
LineExtruded(before, after, raw) ==
  /\ after.isAbsoluteE = ModeAfter(before, raw)
  /\ after.currentE = AccumulatorAfter(before, raw)
  /\ IsPlanarMove(raw) =>
       SubSeq(Counters(after), 1, 4) = SubSeq(CountedAs(before, DeltaOf(before, raw)), 1, 4)

StepExtruded ==
  (parseRun # NULL /\ parseRun' # NULL /\ parseRun'[1].i = parseRun[1].i + 1) =>
    LineExtruded(parseRun[1].st, parseRun'[1].st, parseRun[1].lines[parseRun[1].i + 1])

\* before its first line a parse is in absolute mode with accumulator 0
StartsAbsoluteAtZero ==
  (parseRun # NULL /\ parseRun[1].i = 0) =>
    parseRun[1].st.isAbsoluteE /\ parseRun[1].st.currentE = Num(0, 1)

\* C25: a parse starts in absolute mode with accumulator 0; M82 selects
\* absolute and M83 relative mode; in absolute mode the delta of a motion
\* command is its E minus the accumulator (0 without E) and the accumulator
\* becomes that E, also without X or Y; in relative mode the delta is the E
\* itself (0 without E) and the accumulator stays; G92 with E v sets the
\* accumulator to v in either mode.
C25_ExtrusionRegisters == [][StepExtruded]_vars /\ []StartsAbsoluteAtZero

\* relative mode was selected, G92 E5 set the accumulator there, and a
\* relative print move was counted and left the accumulator at 5
C25_Witness ==
  /\ parseRun # NULL
  /\ parseRun[1].lines = << <<"M", "8", "3">>, <<"G", "9", "2", " ", "E", "5">>,
                            <<"G", "1", " ", "X", "1", " ", "E", "1">> >>
  /\ parseRun[1].i = 3
  /\ ~parseRun[1].st.isAbsoluteE
  /\ parseRun[1].st.currentE = Num(5, 1)
  /\ parseRun[1].st.printMoves = 1

\* C26: for every stream with layerCount >= 1, firstLayerHeight is the
\* smallest distinct positive height visited by the motion commands, also
\* when there is exactly one layer.
C26_FirstLayerIsLowest ==
  (Parsed /\ parseRun[1].result[1].layerCount >= 1) =>
    parseRun[1].result[1].firstLayerHeight = Num(HeightsOfRun[1], 1000)

\* C30: whatever the interleaving of the calls of switchModule, loadModule
\* appends the container, the stylesheet and the script of a module at most
\* once.
C30_LoadedAtMostOnce ==
  \A m \in ModulePool :
    /\ appended[m].container <= 1
    /\ appended[m].link <= 1
    /\ appended[m].script <= 1

====
